---------------------------- MODULE Spec2Model ----------------------------
(***************************************************************************)
(* Sentinel (Splynx scraper): the ID key, the merge of tickets and         *)
(* customers, the session's event loop with the application's worker       *)
(* threads, and the checkpointed date collection.                          *)
(*                                                                         *)
(* Text is a sequence of one-character strings, so that stripping,         *)
(* lower-casing, digit extraction and number parsing are computed and not  *)
(* assumed.  A cell value is a record [t, n, s]: t is the Python type of   *)
(* the value ("none", "bool", "int", "float", "str"), n its number         *)
(* (a float holds tenths, so that truncation is visible) and s its text.   *)
(***************************************************************************)
EXTENDS Integers, Sequences, FiniteSets, TLC

VARIABLES
    \* ---- ID key (excel_merge._id_key, SplynxSession._id_key)
    kv_n,        \* the record ID the input denotes
    kv_form,     \* how the input writes it
    kv_in,       \* the input value
    kv_out,      \* excel_merge._id_key(kv_in), or Unset
    kv_out2,     \* SplynxSession._id_key(kv_in), or Unset
    \* ---- merge (excel_merge.merge_tickets_customers on the workbook file)
    m_disk,      \* the workbook file
    m_log,       \* one record per merge run: its outcome and the output sheets it left
    \* ---- the session (SplynxSession) and the application (App)
    _extract_events, _extract_modes, _shutdown_event,
    _enrich_event, _enrich_excel_path, _enrich_running,
    _collect_dates_event, _collect_ticket_id, _collect_dates_excel_path,
    _collect_dates_running, _page_ready,
    _session,     \* App._session is not None
    loop_pc,      \* where the session's thread is in run/_event_loop and in its job
    app_threads,  \* App._merge_thread, _reorder_thread, _enrich_thread
    app_closed,   \* App._on_close has run
    reply,        \* how the last request was answered
    holders,      \* the components that have loaded the workbook and not yet saved it
    executing,    \* the jobs called and not yet returned
    pending_busy, \* the signals set by a request made while a job was executing
    job_from_busy, \* the job executing was started by such a signal
    \* ---- the date collection (SplynxSession._do_collect_dates_from_excel)
    c_disk,      \* the 'Datos Completos' sheet of the workbook file
    c_bak,       \* the same in the backup file, once made
    c_ckpt,      \* the checkpoint file
    c_wb,        \* the sheet of the workbook in memory
    c_pc,        \* where the run is
    c_i,         \* the rows of the list the loop has passed
    c_start,     \* start_index
    c_cnt,       \* updated, skipped, failed
    c_attempt,   \* attempt
    c_runs,      \* the runs started
    c_kills,     \* the runs killed
    c_looked,    \* the sheet rows looked up in this run
    c_collected, \* the rows written by the lookups of the runs up to the kill
    \* ---- the table extraction (table_extract.extract_tickets_to_excel)
    x_disk,      \* the workbook file
    x_table,     \* the tickets table of the portal
    x_log,       \* one record per run: the file before and after it
    \* ---- the reorder (excel_reorder.reorder_datos_completos_by_template)
    r_disk,      \* the workbook file
    r_tpl,       \* the template file
    r_keep,      \* keep_extra_columns
    r_excl,      \* exclude_columns
    r_log,        \* one record per run: its outcome, the file before and after it
    \* ---- the calls of the session's methods, for the claims about them
    g_calls,     \* per table, the modes of the request_extract calls accepted and not yet consumed
    g_served,     \* the calls that the last extraction started stands for
    \* ---- the header index of a sheet (_get_sheet_columns, _build_col_index)
    h_ws,        \* the rows of the sheet: row 1 and one row of cells
    h_cols,      \* merge's header_to_col for the sheet
    h_index,     \* the reorder's column index for the sheet
    h_done,       \* the two were built
    \* ---- one navigation step (_run_step)
    s_action,    \* the step's action
    s_scope,     \* "frame" when the scope is a nested frame, "page" when it is the root document
    s_n,         \* the number of selector candidates of the step
    s_okf,       \* the candidates that succeed in the frame
    s_okr,       \* the candidates that succeed in the root document
    s_tried,     \* the attempts made, in order: the document and the candidate
    s_result,     \* "none", then "returned" or "raised"
    \* ---- a caller of request_collect_dates_from_excel and the event loop, statement by statement
    q_pc,        \* the statement the caller is at, "idle" between calls
    q_calls,     \* the calls made
    q_accepted,  \* the calls that passed the method's tests
    l_pc,        \* the statement of the loop's collect branch the session's thread is at
    l_excel_path, \* the loop's local excel_path
    l_tid,       \* the loop's local tid
    l_runs,       \* the jobs the loop called, in order: the job and its argument
    \* ---- the date collection with merges of the workbook between its runs
    v_handled,   \* the sheet rows that a run has looked up since the sheet was last created
    v_merges     \* the merges that have recreated the sheet

keyVars == <<kv_n, kv_form, kv_in, kv_out, kv_out2>>

mergeVars == <<m_disk, m_log>>

sessVars ==
    <<_extract_events, _extract_modes, _shutdown_event, _enrich_event,
      _enrich_excel_path, _enrich_running, _collect_dates_event,
      _collect_ticket_id, _collect_dates_excel_path, _collect_dates_running,
      _page_ready, _session, loop_pc, app_threads, app_closed, reply, holders,
      executing, pending_busy, job_from_busy>>

collectVars ==
    <<c_disk, c_bak, c_ckpt, c_wb, c_pc, c_i, c_start, c_cnt, c_attempt, c_runs,
      c_kills, c_looked, c_collected>>

extractVars == <<x_disk, x_table, x_log>>

reorderVars == <<r_disk, r_tpl, r_keep, r_excl, r_log>>

apiVars == <<g_calls, g_served>>

headerVars == <<h_ws, h_cols, h_index, h_done>>

stepVars == <<s_action, s_scope, s_n, s_okf, s_okr, s_tried, s_result>>

raceVars == <<q_pc, q_calls, q_accepted, l_pc, l_excel_path, l_tid, l_runs>>

resumeVars == <<v_handled, v_merges>>

vars ==
    <<keyVars, mergeVars, sessVars, collectVars, extractVars, reorderVars,
      apiVars, headerVars, stepVars, raceVars, resumeVars>>

Unset == <<"unset">>

(***************************************************************************)
(* Text                                                                    *)
(***************************************************************************)
DigitChars == <<"0", "1", "2", "3", "4", "5", "6", "7", "8", "9">>

IsDigit(c) == \E i \in 1..10 : DigitChars[i] = c

DigitVal(c) == (CHOOSE i \in 1..10 : DigitChars[i] = c) - 1

IsSpace(c) == c \in {" ", "\t"}

RECURSIVE NatStr(_)
NatStr(n) ==
    IF n < 10 THEN <<DigitChars[n + 1]>>
    ELSE NatStr(n \div 10) \o <<DigitChars[(n % 10) + 1]>>

\* Python's str(int)
IntStr(n) == IF n < 0 THEN <<"-">> \o NatStr(0 - n) ELSE NatStr(n)

RECURSIVE Pow10(_)
Pow10(k) == IF k <= 0 THEN 1 ELSE 10 * Pow10(k - 1)

RECURSIVE DigitsVal(_)
\* the number a digit string writes
DigitsVal(s) ==
    IF Len(s) = 0 THEN 0
    ELSE 10 * DigitsVal(SubSeq(s, 1, Len(s) - 1)) + DigitVal(s[Len(s)])

RECURSIVE LStripSpace(_)
LStripSpace(s) ==
    IF Len(s) > 0 /\ IsSpace(s[1]) THEN LStripSpace(Tail(s)) ELSE s

RECURSIVE RStripSpace(_)
RStripSpace(s) ==
    IF Len(s) > 0 /\ IsSpace(s[Len(s)])
    THEN RStripSpace(SubSeq(s, 1, Len(s) - 1)) ELSE s

\* str.strip()
Strip(s) == RStripSpace(LStripSpace(s))

RECURSIVE LStripZero(_)
\* str.lstrip("0")
LStripZero(s) ==
    IF Len(s) > 0 /\ s[1] = "0" THEN LStripZero(Tail(s)) ELSE s

RECURSIVE RunEnd(_, _)
\* the position after the run of digits that starts at position i
RunEnd(s, i) ==
    IF i <= Len(s) /\ IsDigit(s[i]) THEN RunEnd(s, i + 1) ELSE i

RECURSIVE DigitRuns(_, _)
\* re.findall(r"\d+", s), read from position i on
DigitRuns(s, i) ==
    IF i > Len(s) THEN <<>>
    ELSE IF IsDigit(s[i])
         THEN <<SubSeq(s, i, RunEnd(s, i) - 1)>> \o DigitRuns(s, RunEnd(s, i))
         ELSE DigitRuns(s, i + 1)

\* max(matches, key=len): the first of the longest
FirstLongest(runs) ==
    LET best == CHOOSE i \in 1..Len(runs) :
                    /\ \A j \in 1..Len(runs) : Len(runs[j]) <= Len(runs[i])
                    /\ \A j \in 1..(i - 1) : Len(runs[j]) < Len(runs[i])
    IN  runs[best]


(***************************************************************************)
(* Cell values                                                             *)
(***************************************************************************)
PyNone == [t |-> "none", n |-> 0, s |-> <<>>]

PyBool(b) == [t |-> "bool", n |-> IF b THEN 1 ELSE 0, s |-> <<>>]

PyInt(i) == [t |-> "int", n |-> i, s |-> <<>>]

\* a float, held in tenths: PyFloat(557) is 55.7
PyFloat(tenths) == [t |-> "float", n |-> tenths, s |-> <<>>]

PyStr(chars) == [t |-> "str", n |-> 0, s |-> chars]

\* int(float): truncation towards zero
FloatToInt(tenths) ==
    IF tenths >= 0 THEN tenths \div 10 ELSE 0 - ((0 - tenths) \div 10)

\* str(value) for the values that reach it in _id_key
PyToStr(v) ==
    CASE v.t = "str" -> v.s
      [] v.t = "float" -> IntStr(FloatToInt(v.n)) \o <<".", DigitChars[(v.n % 10) + 1]>>
      [] v.t = "bool" -> IF v.n = 1 THEN <<"T", "r", "u", "e">>
                         ELSE <<"F", "a", "l", "s", "e">>
      [] OTHER -> IntStr(v.n)

(***************************************************************************)
(* excel_merge: _digits, _SCI_RE, _id_key                                  *)
(***************************************************************************)
_digits(s) ==
    LET matches == DigitRuns(s, 1)
    IN  IF Len(matches) = 0 THEN <<>> ELSE FirstLongest(matches)

\* The places of a text that _SCI_RE reads, found from left to right: p0 the
\* first character after the leading spaces, p1 after the sign, p2 after the
\* integer digits, p3 after the fraction (dot says there is one), p4 after
\* the exponent's letter and sign, p5 after the exponent's digits.
SciFields(s, p0, p1, p2, dot, p3, p4, p5) ==
    [ok   |-> /\ p2 > p1
              /\ p3 <= Len(s) /\ s[p3] \in {"e", "E"}
              /\ p5 > p4
              /\ Len(LStripSpace(SubSeq(s, p5, Len(s)))) = 0,
     neg  |-> p0 <= Len(s) /\ s[p0] = "-",
     int  |-> SubSeq(s, p1, p2 - 1),
     frac |-> IF dot THEN SubSeq(s, p2 + 1, p3 - 1) ELSE <<>>,
     eneg |-> p3 + 1 <= Len(s) /\ s[p3 + 1] = "-",
     exp  |-> SubSeq(s, p4, p5 - 1)]

SciExp(s, p0, p1, p2, dot, p3, p4) ==
    SciFields(s, p0, p1, p2, dot, p3, p4, RunEnd(s, p4))

SciFrac(s, p0, p1, p2, dot, p3) ==
    SciExp(s, p0, p1, p2, dot, p3,
           IF p3 + 1 <= Len(s) /\ s[p3 + 1] \in {"-", "+"} THEN p3 + 2 ELSE p3 + 1)

SciDot(s, p0, p1, p2, dot) ==
    SciFrac(s, p0, p1, p2, dot, IF dot THEN RunEnd(s, p2 + 1) ELSE p2)

SciInt(s, p0, p1, p2) ==
    SciDot(s, p0, p1, p2,
           p2 <= Len(s) /\ s[p2] = "." /\ RunEnd(s, p2 + 1) > p2 + 1)

SciSign(s, p0, p1) == SciInt(s, p0, p1, RunEnd(s, p1))

SciStart(s, p0) ==
    SciSign(s, p0, IF p0 <= Len(s) /\ s[p0] \in {"-", "+"} THEN p0 + 1 ELSE p0)

\* the fields of the match of _SCI_RE on s; ok says whether the whole matches
SciParse(s) == SciStart(s, Len(s) - Len(LStripSpace(s)) + 1)

_SCI_RE(s) == SciParse(s).ok

\* int(Decimal(s)) for a text that _SCI_RE matches: the coefficient shifted
\* by the exponent, truncated towards zero
DecimalToInt(s) ==
    LET p     == SciParse(s)
        coef  == DigitsVal(p.int \o p.frac)
        e     == IF p.eneg THEN 0 - DigitsVal(p.exp) ELSE DigitsVal(p.exp)
        shift == e - Len(p.frac)
        mag   == IF shift >= 0 THEN coef * Pow10(shift)
                 ELSE coef \div Pow10(0 - shift)
    IN  IF p.neg THEN 0 - mag ELSE mag

_id_key_no_sci(value) ==
    IF value.t = "none" THEN <<>>
    ELSE IF value.t = "bool" THEN <<>>
    ELSE IF value.t = "int" THEN IntStr(value.n)
    ELSE IF value.t = "float" THEN IntStr(FloatToInt(value.n))
    ELSE
        LET s == Strip(PyToStr(value))
        IN  IF Len(s) = 0 THEN <<>>
            ELSE LET d == _digits(s)
                 IN  IF Len(d) = 0 THEN <<>>
                     ELSE IF Len(LStripZero(d)) > 0 THEN LStripZero(d)
                          ELSE <<"0">>

_id_key(value) ==
    IF value.t = "none" THEN <<>>
    ELSE IF value.t = "bool" THEN <<>>
    ELSE IF value.t = "int" THEN IntStr(value.n)
    ELSE IF value.t = "float" THEN IntStr(FloatToInt(value.n))
    ELSE
        LET s0 == Strip(PyToStr(value))
        IN  IF Len(s0) = 0 THEN <<>>
            ELSE LET s == IF _SCI_RE(s0) THEN IntStr(DecimalToInt(s0)) ELSE s0
                     d == _digits(s)
                 IN  IF Len(d) = 0 THEN <<>>
                     ELSE IF Len(LStripZero(d)) > 0 THEN LStripZero(d)
                          ELSE <<"0">>

(***************************************************************************)
(* splynx_playwright: SplynxSession._id_key (the digit search is inline)   *)
(***************************************************************************)
Session_id_key(value) ==
    IF value.t = "none" THEN <<>>
    ELSE IF value.t = "bool" THEN <<>>
    ELSE IF value.t = "int" THEN IntStr(value.n)
    ELSE IF value.t = "float" THEN IntStr(FloatToInt(value.n))
    ELSE
        LET s0 == Strip(PyToStr(value))
        IN  IF Len(s0) = 0 THEN <<>>
            ELSE LET s == IF _SCI_RE(s0) THEN IntStr(DecimalToInt(s0)) ELSE s0
                     matches == DigitRuns(s, 1)
                 IN  IF Len(matches) = 0 THEN <<>>
                     ELSE LET d == FirstLongest(matches)
                          IN  IF Len(LStripZero(d)) > 0 THEN LStripZero(d)
                              ELSE <<"0">>


(***************************************************************************)
(* The ID key on the representations of one record ID                      *)
(***************************************************************************)
MaxId == 120

MaxPad == 2

\* the ID of the docstring's example, '1.35921E+05'
ExampleId == 135921

IdSamples == (0..MaxId) \cup {ExampleId}

RECURSIVE Repeat(_, _)
Repeat(c, k) == IF k <= 0 THEN <<>> ELSE <<c>> \o Repeat(c, k - 1)

\* a two-digit exponent, as spreadsheets write it
Exp2(e) == IF e < 10 THEN <<"0">> \o NatStr(e) ELSE NatStr(e)

\* The scientific notations of n: the point after any of its digits, the
\* exponent making up for it, and n times ten with exponent -1.
SciTexts(n) ==
    LET d == NatStr(n)
        k == Len(d)
    IN  { SubSeq(d, 1, j)
            \o (IF j < k THEN <<".">> \o SubSeq(d, j + 1, k) ELSE <<>>)
            \o <<e>> \o sign \o Exp2(k - j)
          : j \in 1..k, e \in {"E", "e"}, sign \in {<<"+">>, <<>>} }
        \cup { d \o <<"0", "E", "-", "0", "1">> }

IdForms == {"int", "float", "sci", "prefixed", "padded"}

EmptyForms == {"none", "bool", "empty"}

IdInputs(n, form) ==
    CASE form = "int" -> {PyInt(n)}
      [] form = "float" -> {PyFloat(10 * n)}
      [] form = "sci" -> {PyStr(x) : x \in SciTexts(n)}
      [] form = "prefixed" -> {PyStr(<<l>> \o NatStr(n)) : l \in {"R", "G"}}
      [] form = "padded" ->
            {PyStr(Repeat(" ", a) \o Repeat("0", z) \o NatStr(n) \o Repeat(" ", b))
               : a \in 0..MaxPad, z \in 0..MaxPad, b \in 0..MaxPad}
      [] form = "none" -> {PyNone}
      [] form = "bool" -> {PyBool(TRUE), PyBool(FALSE)}
      [] form = "empty" -> {PyStr(<<>>)}

KeyInit ==
    /\ kv_form \in IdForms \cup EmptyForms
    /\ kv_n \in IF kv_form \in IdForms THEN IdSamples ELSE {0}
    /\ kv_in \in IdInputs(kv_n, kv_form)
    /\ kv_out = Unset
    /\ kv_out2 = Unset

\* the state of the ID key when another part of the program is looked at
KeyIdle ==
    /\ kv_form = "none"
    /\ kv_n = 0
    /\ kv_in = PyNone
    /\ kv_out = Unset
    /\ kv_out2 = Unset

ComputeKey ==
    /\ kv_out = Unset
    /\ kv_out' = _id_key(kv_in)
    /\ kv_out2' = Session_id_key(kv_in)
    /\ UNCHANGED <<kv_n, kv_form, kv_in>>


(***************************************************************************)
(* Header normalisation (excel_merge._norm_header)                         *)
(***************************************************************************)
UpperChars == <<"A", "B", "C", "D", "E", "F", "G", "H", "I", "J", "K", "L", "M",
                "N", "O", "P", "Q", "R", "S", "T", "U", "V", "W", "X", "Y", "Z",
                "Á", "É", "Í", "Ó", "Ú", "Ñ">>

LowerChars == <<"a", "b", "c", "d", "e", "f", "g", "h", "i", "j", "k", "l", "m",
                "n", "o", "p", "q", "r", "s", "t", "u", "v", "w", "x", "y", "z",
                "á", "é", "í", "ó", "ú", "ñ">>

\* the letters that NFKD splits into a base letter and a combining mark
AccentedChars == <<"á", "é", "í", "ó", "ú", "ñ", "Á", "É", "Í", "Ó", "Ú", "Ñ">>

BaseChars == <<"a", "e", "i", "o", "u", "n", "A", "E", "I", "O", "U", "N">>

LowerMap ==
    [c \in {UpperChars[i] : i \in 1..Len(UpperChars)} |->
        LowerChars[CHOOSE i \in 1..Len(UpperChars) : UpperChars[i] = c]]

UnaccentMap ==
    [c \in {AccentedChars[i] : i \in 1..Len(AccentedChars)} |->
        BaseChars[CHOOSE i \in 1..Len(AccentedChars) : AccentedChars[i] = c]]

\* str.lower(), one character
LowerChar(c) == IF c \in DOMAIN LowerMap THEN LowerMap[c] ELSE c

\* NFKD and the removal of the combining marks, one character
Unaccent(c) == IF c \in DOMAIN UnaccentMap THEN UnaccentMap[c] ELSE c

Lower(s) == [i \in 1..Len(s) |-> LowerChar(s[i])]

RECURSIVE CollapseSpace(_)
\* re.sub(r"\s+", " ", s)
CollapseSpace(s) ==
    IF Len(s) = 0 THEN <<>>
    ELSE IF IsSpace(s[1])
         THEN <<" ">> \o CollapseSpace(LStripSpace(s))
         ELSE <<s[1]>> \o CollapseSpace(Tail(s))

_norm_header(s) ==
    LET s1 == Lower(Strip(s))
        s2 == [i \in 1..Len(s1) |-> Unaccent(s1[i])]
    IN  CollapseSpace(s2)

(***************************************************************************)
(* Workbooks: a workbook is the sequence of its sheets, a sheet a name and *)
(* its rows, a row the sequence of its cells.                              *)
(***************************************************************************)
tickets_sheet == "Datos de Tickets"

customers_sheet == "Datos Clientes"

output_sheet == "Datos Completos"

not_found_sheet == "Datos no Encontrados"

summary_sheet == "Resumen Merge"

sheetnames(wb) == {wb[i].name : i \in 1..Len(wb)}

SheetRows(wb, name) ==
    wb[CHOOSE i \in 1..Len(wb) : wb[i].name = name].rows

\* wb.remove(wb[name])
RemoveSheet(wb, name) == SelectSeq(wb, LAMBDA sh : sh.name # name)

\* wb.create_sheet(title=name), and the rows appended to the new sheet
CreateSheet(wb, name, rows) == Append(wb, [name |-> name, rows |-> rows])

\* openpyxl: an empty sheet has max_row 1 and max_column 1
max_row(rows) == IF Len(rows) = 0 THEN 1 ELSE Len(rows)

RECURSIVE max_column(_)
max_column(rows) ==
    IF Len(rows) = 0 THEN 1
    ELSE LET rest == max_column(Tail(rows))
         IN  IF Len(rows[1]) > rest THEN Len(rows[1]) ELSE rest

\* ws.cell(row=r, column=c).value
Cell(rows, r, c) ==
    IF r \in 1..Len(rows) /\ c \in 1..Len(rows[r]) THEN rows[r][c] ELSE PyNone

\* Python's truth of a cell value
PyTruthy(v) ==
    CASE v.t = "none" -> FALSE
      [] v.t = "str" -> Len(v.s) > 0
      [] OTHER -> v.n # 0

\* str(v or "").strip()
StrOrEmpty(v) == IF PyTruthy(v) THEN Strip(PyToStr(v)) ELSE <<>>

\* a text that no code reads character by character (a label of the summary)
Lit(text) == [t |-> "str", n |-> 0, s |-> <<text>>]

SetMax(S) == CHOOSE x \in S : \A y \in S : y <= x

SetMin(S) == CHOOSE x \in S : \A y \in S : x <= y

(***************************************************************************)
(* excel_merge: the header index                                           *)
(***************************************************************************)
HeaderKeyAt(ws, c) ==
    IF Cell(ws, 1, c).t = "none" THEN <<>>
    ELSE _norm_header(PyToStr(Cell(ws, 1, c)))

\* header_to_col: a later column with the same key overwrites an earlier one
_get_sheet_columns(ws) ==
    LET cols == {c \in 1..max_column(ws) : Len(HeaderKeyAt(ws, c)) > 0}
        keys == {HeaderKeyAt(ws, c) : c \in cols}
    IN  [k \in keys |-> SetMax({c \in cols : HeaderKeyAt(ws, c) = k})]

\* the column, or the KeyError that names it
_require(cols, name) ==
    IF _norm_header(name) \in DOMAIN cols
    THEN [raised |-> FALSE, col |-> cols[_norm_header(name)], name |-> name]
    ELSE [raised |-> TRUE, col |-> 0, name |-> name]

\* cols.header_to_col.get(key), 0 for None
GetCol(cols, key) == IF key \in DOMAIN cols THEN cols[key] ELSE 0

\* the column, or 0 for None
_optional(cols, name) == GetCol(cols, _norm_header(name))

ticket_out_cols ==
    << <<"I", "D">>,
       <<"T", "e", "m", "a">>,
       <<"C", "u", "s", "t", "o", "m", "e", "r", "/", "L", "e", "a", "d">>,
       <<"P", "r", "i", "o", "r", "i", "d", "a", "d">>,
       <<"E", "s", "t", "a", "d", "o">>,
       <<"G", "r", "o", "u", "p">>,
       <<"T", "i", "p", "o">>,
       <<"A", "s", "i", "g", "n", "a", "d", "o", " ", "a">>,
       <<"W", "a", "t", "c", "h", "i", "n", "g">>,
       <<"L", "a", "b", "e", "l", "s">>,
       <<"R", "e", "p", "o", "r", "t", "e", "r">>,
       <<"R", "e", "p", "o", "r", "t", "e", "r", " ", "I", "D">>,
       <<"R", "e", "p", "o", "r", "t", "e", "r", " ", "t", "y", "p", "e">>,
       <<"I", "D", " ", "C", "l", "i", "e", "n", "t", "e">>,
       <<"I", "n", "c", "o", "m", "i", "n", "g", " ", "C", "u", "s", "t", "o", "m", "e", "r">>,
       <<"H", "i", "d", "e">>,
       <<"T", "a", "s", "k">>,
       <<"E", "s", "t", "r", "e", "l", "l", "a">>,
       <<"C", "r", "e", "a", "d", "o", " ", "(", "f", "e", "c", "h", "a", " ", "y", " ", "h", "o", "r", "a", ")">>,
       <<"S", "o", "u", "r", "c", "e">>,
       <<"A", "c", "t", "u", "a", "l", "i", "z", "a", "d", "o", " ", "(", "f", "e", "c", "h", "a", " ", "y", " ", "h", "o", "r", "a", ")">>,
       <<"A", "r", "c", "h", "i", "v", "e">>,
       <<"S", "h", "a", "r", "e", "a", "b", "l", "e">>,
       <<"N", "o", "t", "e">>,
       <<"S", "u", "b", "-", "t", "i", "p", "o", " ", "d", "e", " ", "T", "i", "c", "k", "e", "t">>,
       <<"C", "a", "t", "e", "g", "o", "r", "i", "a", " ", "d", "e", "l", " ", "C", "i", "e", "r", "r", "e">>,
       <<"P", "r", "o", "m", "o", "c", "i", "o", "n">> >>

\* _norm_header of each name of ticket_out_cols
ticket_out_keys ==
    [i \in 1..Len(ticket_out_cols) |-> _norm_header(ticket_out_cols[i])]

H_ID == <<"I", "D">>

H_ReporterID == <<"R", "e", "p", "o", "r", "t", "e", "r", " ", "I", "D">>

H_ReporterType == <<"R", "e", "p", "o", "r", "t", "e", "r", " ", "t", "y", "p", "e">>

H_IDCliente == <<"I", "D", " ", "C", "l", "i", "e", "n", "t", "e">>

H_Servicio == <<"S", "e", "r", "v", "i", "c", "i", "o", " ", "u", "s", "u", "a", "r", "i", "o">>

H_Socio == <<"S", "o", "c", "i", "o">>

H_Residencia == <<"R", "e", "s", "i", "d", "e", "n", "c", "i", "a", "/", "U", "r", "b", "a", "n", "i", "z", "a", "c", "i", "ó", "n">>


(***************************************************************************)
(* excel_merge.merge_tickets_customers                                     *)
(***************************************************************************)
\* a workbook file that does not exist
NoFile == <<>>

EmptyStr == PyStr(<<>>)

CustomerText == <<"c", "u", "s", "t", "o", "m", "e", "r">>

AdminText == <<"a", "d", "m", "i", "n">>

\* str(v or "").strip().lower()
_norm_type(v) == Lower(StrOrEmpty(v))

MergeFail(kind, sheet, name) ==
    [raised |-> TRUE, kind |-> kind, sheet |-> sheet, name |-> name]

\* the checks of the columns, in the order of the code, on the header
\* indexes t_cols and c_cols of the two sheets
merge_column_checks(ws_t, ws_c, t_cols, c_cols) ==
    IF _require(t_cols, H_ID).raised
    THEN MergeFail("KeyError", tickets_sheet, _require(t_cols, H_ID).name)
    ELSE IF ~(_optional(t_cols, H_ReporterID) > 0) /\ ~(_optional(t_cols, H_IDCliente) > 0)
    THEN MergeFail("KeyError", tickets_sheet, H_ReporterID)
    ELSE IF _require(c_cols, H_ID).raised
    THEN MergeFail("KeyError", customers_sheet, _require(c_cols, H_ID).name)
    ELSE IF _require(c_cols, H_Socio).raised
    THEN MergeFail("KeyError", customers_sheet, _require(c_cols, H_Socio).name)
    ELSE IF _require(c_cols, H_Residencia).raised
    THEN MergeFail("KeyError", customers_sheet, _require(c_cols, H_Residencia).name)
    ELSE [raised |-> FALSE, kind |-> "", sheet |-> "", name |-> <<>>,
          ws_t |-> ws_t, ws_c |-> ws_c,
          t_id |-> _require(t_cols, H_ID).col,
          t_reporter_id |-> _optional(t_cols, H_ReporterID),
          t_reporter_type |-> _optional(t_cols, H_ReporterType),
          t_id_cliente |-> _optional(t_cols, H_IDCliente),
          t_col_idx |-> [i \in 1..Len(ticket_out_cols) |->
                            GetCol(t_cols, ticket_out_keys[i])],
          c_id |-> _require(c_cols, H_ID).col,
          c_servicio |-> _optional(c_cols, H_Servicio),
          c_socio |-> _require(c_cols, H_Socio).col,
          c_res |-> _require(c_cols, H_Residencia).col]

merge_sheet_columns(ws_t, ws_c) ==
    merge_column_checks(ws_t, ws_c, _get_sheet_columns(ws_t), _get_sheet_columns(ws_c))

\* The columns the merge reads, or the error of the first check that fails.
merge_columns(wb) ==
    IF wb = NoFile THEN MergeFail("FileNotFoundError", "", <<>>)
    ELSE IF tickets_sheet \notin sheetnames(wb)
    THEN MergeFail("KeyError", tickets_sheet, <<>>)
    ELSE IF customers_sheet \notin sheetnames(wb)
    THEN MergeFail("KeyError", customers_sheet, <<>>)
    ELSE merge_sheet_columns(SheetRows(wb, tickets_sheet), SheetRows(wb, customers_sheet))

\* the customer rows that have a key
CustomerKeyRows(k) ==
    {r \in 2..max_row(k.ws_c) : Len(_id_key(Cell(k.ws_c, r, k.c_id))) > 0}

\* customer_row_by_id: the last row of each key
customer_row_by_id(k) ==
    LET rows == CustomerKeyRows(k)
        keys == {_id_key(Cell(k.ws_c, r, k.c_id)) : r \in rows}
    IN  [key \in keys |->
            SetMax({r \in rows : _id_key(Cell(k.ws_c, r, k.c_id)) = key})]

customer_fields(k, by_id) ==
    [key \in DOMAIN by_id |->
        << IF k.c_servicio > 0
           THEN StrOrEmpty(Cell(k.ws_c, by_id[key], k.c_servicio)) ELSE <<>>,
           StrOrEmpty(Cell(k.ws_c, by_id[key], k.c_socio)),
           StrOrEmpty(Cell(k.ws_c, by_id[key], k.c_res)) >>]

\* customer_map: key -> (servicio, socio, residencia) of the last row of the key
customer_map(k) == customer_fields(k, customer_row_by_id(k))

join_id_for_cliente_first(reporter_type_val, reporter_id_val, id_cliente_val) ==
    IF Len(id_cliente_val) > 0
    THEN [key |-> id_cliente_val, used |-> "id_cliente"]
    ELSE IF Len(reporter_id_val) > 0
    THEN [key |-> reporter_id_val, used |-> "reporter_id"]
    ELSE [key |-> <<>>, used |-> "none"]

\* the choice of the join key (Reporter ID first when the reporter is a customer)
join_id_for(reporter_type_val, reporter_id_val, id_cliente_val) ==
    IF reporter_type_val = CustomerText /\ Len(reporter_id_val) > 0
    THEN [key |-> reporter_id_val, used |-> "reporter_id"]
    ELSE IF Len(id_cliente_val) > 0
    THEN [key |-> id_cliente_val, used |-> "id_cliente"]
    ELSE IF Len(reporter_id_val) > 0
    THEN [key |-> reporter_id_val, used |-> "reporter_id"]
    ELSE [key |-> <<>>, used |-> "none"]

\* the ticket's fields in the order of ticket_out_cols, "" for an absent column
TicketFields(k, r) ==
    [i \in 1..Len(ticket_out_cols) |->
        IF k.t_col_idx[i] > 0 THEN Cell(k.ws_t, r, k.t_col_idx[i]) ELSE EmptyStr]

\* the row once its join key j is chosen
TicketJoined(k, cmap, r, reporter_type_val, j) ==
    [reporter_type_val |-> reporter_type_val,
     join_id |-> j.key,
     used |-> j.used,
     found |-> Len(j.key) > 0 /\ j.key \in DOMAIN cmap,
     fields |-> TicketFields(k, r),
     extra |-> IF Len(j.key) > 0 /\ j.key \in DOMAIN cmap
               THEN <<PyStr(cmap[j.key][1]), PyStr(cmap[j.key][2]),
                      PyStr(cmap[j.key][3])>>
               ELSE <<>>]

TicketKeyed(k, cmap, r, reporter_type_val, reporter_id_val, id_cliente_val) ==
    TicketJoined(k, cmap, r, reporter_type_val,
                 join_id_for(reporter_type_val, reporter_id_val, id_cliente_val))

\* what one pass of the loop over the ticket rows reads and decides for row r
TicketRow(k, cmap, r) ==
    TicketKeyed(k, cmap, r,
        IF k.t_reporter_type > 0
        THEN _norm_type(Cell(k.ws_t, r, k.t_reporter_type)) ELSE <<>>,
        IF k.t_reporter_id > 0
        THEN _id_key(Cell(k.ws_t, r, k.t_reporter_id)) ELSE <<>>,
        IF k.t_id_cliente > 0
        THEN _id_key(Cell(k.ws_t, r, k.t_id_cliente)) ELSE <<>>)

\* not_found_counts[key] = not_found_counts.get(key, 0) + 1, in a dict that
\* keeps the order in which its keys were first set
CountUp(counts, key) ==
    IF \E i \in 1..Len(counts) : counts[i].k = key
    THEN [i \in 1..Len(counts) |->
            IF counts[i].k = key THEN [k |-> key, v |-> counts[i].v + 1]
            ELSE counts[i]]
    ELSE Append(counts, [k |-> key, v |-> 1])

ticket_rows_with_header(ws_t) == [first |-> 1, last |-> max_row(ws_t)]

\* range(2, ws_t.max_row + 1)
ticket_rows(ws_t) == [first |-> 2, last |-> max_row(ws_t)]

MergeAcc0 ==
    [o |-> <<>>, nf |-> <<>>, tickets_total |-> 0, joined |-> 0, not_found |-> 0,
     not_found_counts |-> <<>>, used_reporter_id |-> 0, used_id_cliente |-> 0,
     reporter_type_customer |-> 0, reporter_type_admin |-> 0,
     reporter_type_other |-> 0, blank_join_id |-> 0]

\* the counters of the audit, for a row read as t
MergeCount(a, t) ==
    [a EXCEPT
       !.tickets_total = @ + 1,
       !.reporter_type_customer =
           IF t.reporter_type_val = CustomerText THEN @ + 1 ELSE @,
       !.reporter_type_admin =
           IF t.reporter_type_val = AdminText THEN @ + 1 ELSE @,
       !.reporter_type_other =
           IF /\ t.reporter_type_val # CustomerText
              /\ t.reporter_type_val # AdminText
              /\ Len(t.reporter_type_val) > 0 THEN @ + 1 ELSE @,
       !.used_reporter_id = IF t.used = "reporter_id" THEN @ + 1 ELSE @,
       !.used_id_cliente = IF t.used = "id_cliente" THEN @ + 1 ELSE @]

\* the row goes to one of the two sheets
MergePlace(a1, t) ==
    IF Len(t.join_id) = 0
    THEN [a1 EXCEPT !.blank_join_id = @ + 1,
                    !.not_found = @ + 1,
                    !.not_found_counts = CountUp(@, <<>>),
                    !.nf = Append(@, t.fields)]
    ELSE IF ~t.found
    THEN [a1 EXCEPT !.not_found = @ + 1,
                    !.not_found_counts = CountUp(@, t.join_id),
                    !.nf = Append(@, t.fields)]
    ELSE [a1 EXCEPT !.o = Append(@, t.fields \o t.extra),
                    !.joined = @ + 1]

MergeRowRead(a, t) == MergePlace(MergeCount(a, t), t)

\* one pass of the loop over the ticket rows
MergeStep(k, cmap, r, a) == MergeRowRead(a, TicketRow(k, cmap, r))

RECURSIVE MergeLoop(_, _, _, _, _)
MergeLoop(k, cmap, r, last, a) ==
    IF r > last THEN a
    ELSE MergeLoop(k, cmap, r + 1, last, MergeStep(k, cmap, r, a))

RECURSIVE SortByCountDesc(_)
\* items.sort(key=lambda kv: kv[1], reverse=True): stable
SortByCountDesc(items) ==
    IF Len(items) = 0 THEN <<>>
    ELSE LET i == CHOOSE i \in 1..Len(items) :
                     /\ \A j \in 1..Len(items) : items[j].v <= items[i].v
                     /\ \A j \in 1..(i - 1) : items[j].v < items[i].v
         IN  <<items[i]>> \o
             SortByCountDesc(SubSeq(items, 1, i - 1) \o SubSeq(items, i + 1, Len(items)))

\* the number of unmatched IDs the summary lists
TopLimit == 200

KeyInt(key) ==
    IF key[1] = "-" THEN 0 - DigitsVal(Tail(key)) ELSE DigitsVal(key)

FirstN(items, n) == SubSeq(items, 1, IF Len(items) < n THEN Len(items) ELSE n)

\* the rows of the summary, for the customers' IDs c_ints and the most
\* frequent unmatched IDs top
SummaryTable(k, cmap, by_id, a, c_ints, top) ==
    << <<Lit("Métrica"), Lit("Valor")>>,
       <<Lit("Tickets (filas en hoja)"), PyInt(max_row(k.ws_t) - 1)>>,
       <<Lit("Clientes (filas en hoja)"), PyInt(max_row(k.ws_c) - 1)>>,
       <<Lit("Clientes (IDs únicos)"), PyInt(Cardinality(DOMAIN cmap))>>,
       <<Lit("Join"), Lit("Tickets(Reporter ID/ID Cliente) -> Clientes(ID)")>> >>
    \o (IF c_ints # {}
        THEN << <<Lit("Clientes ID min"), PyInt(SetMin(c_ints))>>,
                <<Lit("Clientes ID max"), PyInt(SetMax(c_ints))>> >>
        ELSE <<>>)
    \o << <<Lit("Tickets total (procesados)"), PyInt(a.tickets_total)>>,
          <<Lit("Coincidencias (join)"), PyInt(a.joined)>>,
          <<Lit("No encontrados"), PyInt(a.not_found)>>,
          <<Lit("Tickets sin ID para comparar"), PyInt(a.blank_join_id)>>,
          <<Lit("Join usando Reporter ID"), PyInt(a.used_reporter_id)>>,
          <<Lit("Join usando ID Cliente (fallback)"), PyInt(a.used_id_cliente)>> >>
    \o (IF a.reporter_type_customer + a.reporter_type_admin + a.reporter_type_other > 0
        THEN << <<Lit("Reporter type = customer"), PyInt(a.reporter_type_customer)>>,
                <<Lit("Reporter type = admin"), PyInt(a.reporter_type_admin)>>,
                <<Lit("Reporter type = otros"), PyInt(a.reporter_type_other)>> >>
        ELSE <<>>)
    \o << <<EmptyStr>>,
          <<Lit("Top IDs no encontrados"), Lit("Conteo"),
            Lit("Ejemplo fila ticket"), Lit("Fila cliente (si existe)")>> >>
    \o [i \in 1..Len(top) |->
          <<PyStr(top[i].k), PyInt(top[i].v), EmptyStr,
            IF top[i].k \in DOMAIN by_id THEN PyInt(by_id[top[i].k]) ELSE EmptyStr>>]

\* the rows of the 'Resumen Merge' sheet
SummaryRows(k, cmap, by_id, a) ==
    SummaryTable(k, cmap, by_id, a,
        {KeyInt(key) : key \in DOMAIN cmap},
        FirstN(SortByCountDesc(SelectSeq(a.not_found_counts, LAMBDA it : Len(it.k) > 0)),
               TopLimit))

fresh_sheet_keep_old(wb, name) ==
    IF name \in sheetnames(wb) THEN wb ELSE CreateSheet(wb, name, <<>>)

\* if name in wb.sheetnames: wb.remove(wb[name]); wb.create_sheet(title=name)
fresh_sheet(wb, name) == CreateSheet(RemoveSheet(wb, name), name, <<>>)

\* ws.append(row), for each row of rows, on the sheet called name
AppendRows(wb, name, rows) ==
    [i \in 1..Len(wb) |->
        IF wb[i].name = name THEN [wb[i] EXCEPT !.rows = @ \o rows] ELSE wb[i]]

\* the three output sheets, recreated and empty
RecreateOutputs(wb) ==
    fresh_sheet(fresh_sheet(fresh_sheet(wb, output_sheet), not_found_sheet),
                summary_sheet)

out_headers ==
    [i \in 1..Len(ticket_out_cols) |-> PyStr(ticket_out_cols[i])]
    \o <<PyStr(H_Servicio), PyStr(H_Socio), PyStr(H_Residencia)>>

nf_headers == [i \in 1..Len(ticket_out_cols) |-> PyStr(ticket_out_cols[i])]

\* the workbook saved and the counts returned, for the result a of the loop
merge_written(wb, k, cmap, by_id, a) ==
    [raised |-> FALSE, kind |-> "", sheet |-> "", name |-> <<>>,
     saved |-> TRUE,
     wb |-> AppendRows(
                AppendRows(
                    AppendRows(RecreateOutputs(wb), output_sheet, <<out_headers>> \o a.o),
                    not_found_sheet, <<nf_headers>> \o a.nf),
                summary_sheet, SummaryRows(k, cmap, by_id, a)),
     ret |-> <<a.tickets_total, a.joined, a.not_found>>]

merge_looped(wb, k, cmap, by_id) ==
    merge_written(wb, k, cmap, by_id,
        MergeLoop(k, cmap, ticket_rows(k.ws_t).first, ticket_rows(k.ws_t).last, MergeAcc0))

\* the merge once its columns are known: the workbook it saves and its counts
merge_rows(wb, k) == merge_looped(wb, k, customer_map(k), customer_row_by_id(k))

merge_checked_late(wb, k) ==
    IF k.raised
    THEN [raised |-> TRUE, kind |-> k.kind, sheet |-> k.sheet, name |-> k.name,
          saved |-> wb # NoFile,
          wb |-> IF wb = NoFile THEN wb ELSE RecreateOutputs(wb),
          ret |-> <<0, 0, 0>>]
    ELSE merge_rows(wb, k)

merge_recreating_before_checks(wb) == merge_checked_late(wb, merge_columns(wb))

\* an error of the checks ends the merge before anything is written
merge_checked(wb, k) ==
    IF k.raised
    THEN [raised |-> TRUE, kind |-> k.kind, sheet |-> k.sheet, name |-> k.name,
          saved |-> FALSE, wb |-> wb, ret |-> <<0, 0, 0>>]
    ELSE merge_rows(wb, k)

\* merge_tickets_customers(excel_path) on the workbook wb of the file: what it
\* raises or returns, and the workbook it saves (wb.save is its last statement)
merge_tickets_customers(wb) == merge_checked(wb, merge_columns(wb))


(***************************************************************************)
(* The workbooks the merge is run on                                       *)
(***************************************************************************)
MaxTickets == 2

MaxRuns == 2

H_Tema == <<"T", "e", "m", "a">>

\* the header texts as the extraction writes them, and as a hand-edited
\* sheet may hold them: other case, no accent, spaces around and inside
HeaderText(tag, messy) ==
    CASE tag = "id" -> IF messy THEN <<" ", "i", "d", " ">> ELSE H_ID
      [] tag = "tema" -> IF messy THEN Lower(H_Tema) ELSE H_Tema
      [] tag = "rid" -> IF messy THEN <<"R", "E", "P", "O", "R", "T", "E", "R", " ", " ", "I", "D", " ">> ELSE H_ReporterID
      [] tag = "rtype" -> IF messy THEN <<"r", "e", "p", "o", "r", "t", "e", "r", "\t", "T", "y", "p", "e">> ELSE H_ReporterType
      [] tag = "cid" -> IF messy THEN <<" ", "I", "d", " ", "c", "l", "i", "e", "n", "t", "e">> ELSE H_IDCliente
      [] tag = "servicio" -> IF messy THEN Lower(H_Servicio) ELSE H_Servicio
      [] tag = "socio" -> IF messy THEN <<"S", "O", "C", "I", "O">> ELSE H_Socio
      [] tag = "res" -> IF messy THEN <<" ", " ", "R", "E", "S", "I", "D", "E", "N", "C", "I", "A", "/", "U", "R", "B", "A", "N", "I", "Z", "A", "C", "I", "Ó", "N", " ">> ELSE H_Residencia

TicketHeaders ==
    { <<"id", "tema", "rid", "rtype", "cid">>,
      <<"tema", "rid", "rtype", "cid">>,
      <<"rtype", "cid", "id", "tema">>,
      <<"id", "tema", "rid", "rtype">>,
      <<"id", "tema", "rtype">> }

CustomerHeaders ==
    { <<"id", "servicio", "socio", "res">>,
      <<"servicio", "socio", "res">>,
      <<"id", "servicio", "res">>,
      <<"id", "servicio", "socio">>,
      <<"socio", "res", "id">> }

\* one ticket: its reporter type, Reporter ID and ID Cliente cells
TicketKinds ==
    [rtype : {PyStr(CustomerText), PyStr(AdminText), PyNone},
     rid : {PyInt(55), PyNone},
     cid : {PyStr(<<"R", "9", "9">>), PyNone}]

TicketData == UNION {[1..n -> TicketKinds] : n \in 0..MaxTickets}

\* the ID cells of the customers sheet, row by row
CustomerScenarios ==
    { <<>>,
      <<PyInt(55)>>,
      <<PyInt(55), PyStr(<<" ", "0", "9", "9", " ">>)>>,
      <<PyStr(<<"5", ".", "5", "E", "+", "0", "1">>), PyFloat(550)>>,
      <<PyNone, PyFloat(990), PyInt(7)>> }

RefTickets ==
    << [rtype |-> PyStr(<<" ", "C", "u", "s", "t", "o", "m", "e", "r">>),
        rid |-> PyInt(55), cid |-> PyStr(<<"R", "9", "9">>)],
       [rtype |-> PyStr(AdminText), rid |-> PyNone, cid |-> PyInt(99)],
       [rtype |-> PyNone, rid |-> PyNone, cid |-> PyNone] >>

RefCustomers == <<PyInt(55), PyStr(<<" ", "0", "9", "9", " ">>)>>

SocioNames == <<"A", "B", "C", "D">>

TicketCell(tag, r, t) ==
    CASE tag = "id" -> PyInt(r)
      [] tag = "tema" -> PyStr(<<"t">>)
      [] tag = "rid" -> t.rid
      [] tag = "rtype" -> t.rtype
      [] tag = "cid" -> t.cid

CustomerCell(tag, r, id) ==
    CASE tag = "id" -> id
      [] tag = "servicio" -> IF r = 1 THEN PyNone ELSE PyStr(<<"s">>)
      [] tag = "socio" -> PyStr(<<" ", SocioNames[r], " ">>)
      [] tag = "res" -> PyStr(<<"u", SocioNames[r]>>)

\* a tickets sheet: the header row, then tickets numbered 1, 2, ... in column ID
MkTickets(hdr, messy, data) ==
    << [c \in 1..Len(hdr) |-> PyStr(HeaderText(hdr[c], messy))] >>
    \o [r \in 1..Len(data) |-> [c \in 1..Len(hdr) |-> TicketCell(hdr[c], r, data[r])]]

MkCustomers(hdr, messy, ids) ==
    << [c \in 1..Len(hdr) |-> PyStr(HeaderText(hdr[c], messy))] >>
    \o [r \in 1..Len(ids) |-> [c \in 1..Len(hdr) |-> CustomerCell(hdr[c], r, ids[r])]]

\* output sheets left by an earlier merge of other tickets
StaleSheets ==
    << [name |-> output_sheet,
        rows |-> << <<PyStr(H_ID)>>, <<PyInt(77)>> >>],
       [name |-> not_found_sheet,
        rows |-> << <<PyStr(H_ID)>>, <<PyInt(78)>> >>] >>

MkWorkbook(th, tmessy, td, ch, cmessy, cs, stale) ==
    << [name |-> tickets_sheet, rows |-> MkTickets(th, tmessy, td)] >>
    \o (IF stale THEN StaleSheets ELSE <<>>)
    \o << [name |-> customers_sheet, rows |-> MkCustomers(ch, cmessy, cs)] >>

FullTH == <<"id", "tema", "rid", "rtype", "cid">>

FullCH == <<"id", "servicio", "socio", "res">>

\* the customers sheets that every list of tickets is merged with
JoinScenarios == {cs \in CustomerScenarios : Len(cs) \in {0, 2}}

MergeInputs ==
    { MkWorkbook(FullTH, FALSE, td, FullCH, FALSE, cs, FALSE)
        : td \in TicketData, cs \in JoinScenarios }
    \cup { MkWorkbook(FullTH, FALSE, RefTickets, FullCH, FALSE, cs, FALSE)
             : cs \in CustomerScenarios }
    \cup { MkWorkbook(th, tm, RefTickets, ch, cm, RefCustomers, stale)
             : th \in TicketHeaders, tm \in BOOLEAN,
               ch \in CustomerHeaders, cm \in BOOLEAN, stale \in BOOLEAN }
    \cup { NoFile,
           << [name |-> tickets_sheet, rows |-> MkTickets(FullTH, FALSE, RefTickets)] >>,
           << [name |-> customers_sheet, rows |-> MkCustomers(FullCH, FALSE, RefCustomers)] >> }

MergeInit ==
    /\ m_disk \in MergeInputs
    /\ m_log = <<>>

MergeIdle ==
    /\ m_disk = NoFile
    /\ m_log = <<>>

\* the output sheets of a workbook, in the order they have in it
OutputSheets(wb) ==
    SelectSeq(wb, LAMBDA sh : sh.name \in {output_sheet, not_found_sheet, summary_sheet})

\* App._on_merge's job: merge_tickets_customers on the workbook file
Merge ==
    /\ Len(m_log) < MaxRuns
    /\ \E res \in {merge_tickets_customers(m_disk)} :
       \E after \in {IF res.saved THEN res.wb ELSE m_disk} :
           /\ m_disk' = after
           /\ m_log' = Append(m_log, [changed |-> after # m_disk,
                                      outs |-> OutputSheets(after),
                                      raised |-> res.raised, kind |-> res.kind,
                                      name |-> res.name, ret |-> res.ret])


(***************************************************************************)
(* The session (splynx_playwright.py: request_*, shutdown, run,            *)
(* _event_loop and the entry and exit of the jobs), the application's      *)
(* handlers and worker threads (app.py), and their accesses to the         *)
(* workbook file 'output/Datos Splynx.xlsx'.                               *)
(***************************************************************************)
TableKeys == {"table1", "table2"}

\* the jobs the event loop calls
Jobs == {"table1", "table2", "enrich", "collect_excel", "collect_nav"}

\* the signals the event loop consumes
Signals == {"table1", "table2", "enrich", "collect"}

\* the components that load and save the workbook file
FileJobs == {"table1", "table2", "enrich", "collect_excel"}

Workers == {"merge", "reorder"}

NoPath == ""

ExcelPath == "output/Datos Splynx.xlsx"

MissingPath == "output/missing.xlsx"

NoTicket == ""

\* os.path.exists(path)
PathExists(path) == path = ExcelPath

\* a position of the session's thread: the statement of run/_event_loop it
\* is at, the job it is inside of, and how far that job has got
At(at) == [at |-> at, job |-> "none", ph |-> "none", arg |-> ""]

\* the check that follows a check of _event_loop
NextCheck(at) ==
    CASE at = "table1" -> "table2"
      [] at = "table2" -> "enrich"
      [] at = "enrich" -> "collect"
      [] at = "collect" -> "wait"

\* a spawned job would leave the loop free to go on to its next check
after_dispatch_spawned(at, job, arg) == At(NextCheck(at))

\* self._do_...(page, ...): the loop's own thread runs the job, and is back in
\* the loop when the job returns
after_dispatch(at, job, arg) == [at |-> at, job |-> job, ph |-> "entry", arg |-> arg]

InJob == loop_pc.job # "none"

SessionAlive == loop_pc.at \notin {"none", "closed"}

\* SplynxSession.__init__
SessionFields ==
    /\ _extract_events = [k \in TableKeys |-> FALSE]
    /\ _extract_modes = [k \in TableKeys |-> "auto"]
    /\ _shutdown_event = FALSE
    /\ _enrich_event = FALSE
    /\ _enrich_excel_path = NoPath
    /\ _enrich_running = FALSE
    /\ _collect_dates_event = FALSE
    /\ _collect_ticket_id = NoTicket
    /\ _collect_dates_excel_path = NoPath
    /\ _collect_dates_running = FALSE
    /\ _page_ready = FALSE

\* App.__init__: no session, no worker thread
SessInit ==
    /\ SessionFields
    /\ _session = FALSE
    /\ loop_pc = At("none")
    /\ executing = {}
    /\ app_threads = [w \in Workers \cup {"enrich"} |-> "dead"]
    /\ app_closed = FALSE
    /\ reply = "none"
    /\ holders = {}
    /\ pending_busy = {}
    /\ job_from_busy = FALSE

sessionFieldVars ==
    <<_extract_events, _extract_modes, _shutdown_event, _enrich_event,
      _enrich_excel_path, _enrich_running, _collect_dates_event,
      _collect_ticket_id, _collect_dates_excel_path, _collect_dates_running,
      _page_ready>>

fileVars == <<holders>>

\* a request has set signal sig: it is remembered when the loop was inside a job
Accepted(sig) ==
    /\ reply' = "accepted"
    /\ pending_busy' = IF InJob THEN pending_busy \cup {sig} ELSE pending_busy

Rejected(why) ==
    /\ reply' = why
    /\ UNCHANGED <<sessionFieldVars, pending_busy>>

NoMode == ""

\* str(mode or "auto").lower(), on the modes that are passed
norm_mode(mode) ==
    CASE mode = NoMode -> "auto"
      [] mode = "MANUAL" -> "manual"
      [] OTHER -> mode

\* a request that leaves the mode of a call still pending as it is
request_extract_keep_pending(table_key, mode) ==
    IF table_key \notin DOMAIN _extract_events THEN Rejected("unknown_table")
    ELSE IF ~_page_ready THEN Rejected("not_ready")
    ELSE /\ _extract_modes' =
               IF _extract_events[table_key] THEN _extract_modes
               ELSE [_extract_modes EXCEPT ![table_key] = norm_mode(mode)]
         /\ _extract_events' = [_extract_events EXCEPT ![table_key] = TRUE]
         /\ Accepted(table_key)
         /\ UNCHANGED <<_shutdown_event, _enrich_event, _enrich_excel_path,
                        _enrich_running, _collect_dates_event, _collect_ticket_id,
                        _collect_dates_excel_path, _collect_dates_running, _page_ready>>

\* SplynxSession.request_extract(table_key, mode)
request_extract(table_key, mode) ==
    IF table_key \notin DOMAIN _extract_events THEN Rejected("unknown_table")
    ELSE IF ~_page_ready THEN Rejected("not_ready")
    ELSE /\ _extract_modes' = [_extract_modes EXCEPT ![table_key] = norm_mode(mode)]
         /\ _extract_events' = [_extract_events EXCEPT ![table_key] = TRUE]
         /\ Accepted(table_key)
         /\ UNCHANGED <<_shutdown_event, _enrich_event, _enrich_excel_path,
                        _enrich_running, _collect_dates_event, _collect_ticket_id,
                        _collect_dates_excel_path, _collect_dates_running, _page_ready>>

\* a request for enrichment that does not look at the page-ready flag
enrich_request_unguarded(excel_path) ==
    IF _enrich_running THEN Rejected("busy")
    ELSE /\ _enrich_excel_path' = excel_path
         /\ _enrich_event' = TRUE
         /\ Accepted("enrich")
         /\ UNCHANGED <<_extract_events, _extract_modes, _shutdown_event,
                        _enrich_running, _collect_dates_event, _collect_ticket_id,
                        _collect_dates_excel_path, _collect_dates_running, _page_ready>>

\* SplynxSession.request_enrich_missing(excel_path=...)
request_enrich_missing(excel_path) ==
    IF ~_page_ready THEN Rejected("not_ready")
    ELSE IF _enrich_running THEN Rejected("busy")
    ELSE /\ _enrich_excel_path' = excel_path
         /\ _enrich_event' = TRUE
         /\ Accepted("enrich")
         /\ UNCHANGED <<_extract_events, _extract_modes, _shutdown_event,
                        _enrich_running, _collect_dates_event, _collect_ticket_id,
                        _collect_dates_excel_path, _collect_dates_running, _page_ready>>

\* SplynxSession.request_collect_dates_nav(ticket_id=...)
request_collect_dates_nav(ticket_id) ==
    IF ~_page_ready THEN Rejected("not_ready")
    ELSE IF ticket_id = NoTicket THEN Rejected("no_ticket")
    ELSE /\ _collect_ticket_id' = ticket_id
         /\ _collect_dates_excel_path' = NoPath
         /\ _collect_dates_event' = TRUE
         /\ Accepted("collect")
         /\ UNCHANGED <<_extract_events, _extract_modes, _shutdown_event,
                        _enrich_event, _enrich_excel_path, _enrich_running,
                        _collect_dates_running, _page_ready>>

\* SplynxSession.request_collect_dates_from_excel(excel_path=...)
request_collect_dates_from_excel(excel_path) ==
    IF ~_page_ready THEN Rejected("not_ready")
    ELSE IF excel_path = NoPath THEN Rejected("no_path")
    ELSE IF ~PathExists(excel_path) THEN Rejected("no_file")
    ELSE IF _collect_dates_running THEN Rejected("busy")
    ELSE /\ _collect_ticket_id' = NoTicket
         /\ _collect_dates_excel_path' = excel_path
         /\ _collect_dates_event' = TRUE
         /\ Accepted("collect")
         /\ UNCHANGED <<_extract_events, _extract_modes, _shutdown_event,
                        _enrich_event, _enrich_excel_path, _enrich_running,
                        _collect_dates_running, _page_ready>>

\* SplynxSession.shutdown()
shutdown ==
    /\ _shutdown_event' = TRUE
    /\ _extract_events' = [k \in TableKeys |-> TRUE]
    /\ _enrich_event' = TRUE
    /\ UNCHANGED <<_extract_modes, _enrich_excel_path, _enrich_running,
                   _collect_dates_event, _collect_ticket_id,
                   _collect_dates_excel_path, _collect_dates_running, _page_ready>>

sessGhost == <<executing, job_from_busy>>

\* ---- the application's handlers (the UI thread)
\* App._on_open: a new session and its thread
OnOpen ==
    /\ ~app_closed
    /\ ~SessionAlive
    /\ _session' = TRUE
    /\ loop_pc' = At("launch")
    /\ _extract_events' = [k \in TableKeys |-> FALSE]
    /\ _extract_modes' = [k \in TableKeys |-> "auto"]
    /\ _shutdown_event' = FALSE
    /\ _enrich_event' = FALSE
    /\ _enrich_excel_path' = NoPath
    /\ _enrich_running' = FALSE
    /\ _collect_dates_event' = FALSE
    /\ _collect_ticket_id' = NoTicket
    /\ _collect_dates_excel_path' = NoPath
    /\ _collect_dates_running' = FALSE
    /\ _page_ready' = FALSE
    /\ pending_busy' = {}
    /\ UNCHANGED <<sessGhost, app_threads, app_closed, reply, fileVars>>

\* App._on_extract1
OnExtract1 ==
    /\ ~app_closed
    /\ _session
    /\ request_extract("table1", "manual")
    /\ UNCHANGED <<_session, loop_pc, sessGhost, app_threads, app_closed, fileVars>>

\* App._on_extract2
OnExtract2 ==
    /\ ~app_closed
    /\ _session
    /\ request_extract("table2", "auto")
    /\ UNCHANGED <<_session, loop_pc, sessGhost, app_threads, app_closed, fileVars>>

\* App._on_enrich_missing: starts the thread that makes the request
OnEnrichMissing ==
    /\ ~app_closed
    /\ _session
    /\ app_threads["enrich"] = "dead"
    /\ app_threads' = [app_threads EXCEPT !["enrich"] = "start"]
    /\ UNCHANGED <<sessionFieldVars, _session, loop_pc, sessGhost, app_closed,
                   reply, fileVars, pending_busy>>

\* the _job of App._on_enrich_missing
EnrichThreadJob ==
    /\ app_threads["enrich"] = "start"
    /\ request_enrich_missing(ExcelPath)
    /\ app_threads' = [app_threads EXCEPT !["enrich"] = "dead"]
    /\ UNCHANGED <<_session, loop_pc, sessGhost, app_closed, fileVars>>

\* a call of request_collect_dates_from_excel
RequestCollectDatesFromExcel ==
    /\ ~app_closed
    /\ _session
    /\ \E path \in {NoPath, ExcelPath, MissingPath} :
          request_collect_dates_from_excel(path)
    /\ UNCHANGED <<_session, loop_pc, sessGhost, app_threads, app_closed, fileVars>>

\* a call of request_collect_dates_nav
RequestCollectDatesNav ==
    /\ ~app_closed
    /\ _session
    /\ \E tid \in {NoTicket, "7"} : request_collect_dates_nav(tid)
    /\ UNCHANGED <<_session, loop_pc, sessGhost, app_threads, app_closed, fileVars>>

\* App._on_close
OnClose ==
    /\ ~app_closed
    /\ app_closed' = TRUE
    /\ IF _session THEN shutdown ELSE UNCHANGED sessionFieldVars
    /\ UNCHANGED <<_session, loop_pc, sessGhost, app_threads, reply, fileVars,
                   pending_busy>>

\* App._on_merge: only the merge thread is looked at
OnMerge ==
    /\ ~app_closed
    /\ app_threads["merge"] = "dead"
    /\ app_threads' = [app_threads EXCEPT !["merge"] = "start"]
    /\ UNCHANGED <<sessionFieldVars, _session, loop_pc, sessGhost, app_closed,
                   reply, fileVars, pending_busy>>

\* App._on_reorder: the merge thread and the reorder thread are looked at
OnReorder ==
    /\ ~app_closed
    /\ app_threads["merge"] = "dead"
    /\ app_threads["reorder"] = "dead"
    /\ app_threads' = [app_threads EXCEPT !["reorder"] = "start"]
    /\ UNCHANGED <<sessionFieldVars, _session, loop_pc, sessGhost, app_closed,
                   reply, fileVars, pending_busy>>

\* ---- the workbook file: who holds a loaded copy of it
\* load_workbook / _open_or_create_workbook by component c
load(c) == holders' = holders \cup {c}

\* wb.save by component c: the file now holds c's copy, whatever the others
\* had saved since c loaded it; c is done with it, or goes on with its copy
save(c, release) == holders' = IF release THEN holders \ {c} ELSE holders

\* the loaded copy is given up without a save
drop(c) == holders' = holders \ {c}

sessOnly ==
    <<sessionFieldVars, _session, loop_pc, sessGhost, app_closed, reply, pending_busy>>

\* ---- the worker threads of App._on_merge and App._on_reorder
\* load_workbook(excel_path) in merge_tickets_customers and in
\* reorder_datos_completos_by_template
WorkerLoad ==
    \E w \in Workers :
        /\ app_threads[w] = "start"
        /\ app_threads' = [app_threads EXCEPT ![w] = "loaded"]
        /\ load(w)
        /\ UNCHANGED sessOnly

\* the file (or the template) does not exist: the thread ends
WorkerFail ==
    \E w \in Workers :
        /\ app_threads[w] = "start"
        /\ app_threads' = [app_threads EXCEPT ![w] = "dead"]
        /\ UNCHANGED <<sessOnly, fileVars>>

\* wb.save(excel_path), the last statement of both
WorkerSave ==
    \E w \in Workers :
        /\ app_threads[w] = "loaded"
        /\ app_threads' = [app_threads EXCEPT ![w] = "dead"]
        /\ save(w, TRUE)
        /\ UNCHANGED sessOnly

\* a sheet or a column is missing: the thread ends without a save
WorkerRaise ==
    \E w \in Workers :
        /\ app_threads[w] = "loaded"
        /\ app_threads' = [app_threads EXCEPT ![w] = "dead"]
        /\ drop(w)
        /\ UNCHANGED sessOnly

\* ---- the session's thread: SplynxSession.run and _event_loop
appOnly == <<_session, app_threads, app_closed, reply>>

\* run: the browser is open and the login form filled
RunReady ==
    /\ loop_pc.at = "launch"
    /\ _page_ready' = TRUE
    /\ loop_pc' = At("top")
    /\ UNCHANGED <<_extract_events, _extract_modes, _shutdown_event, _enrich_event,
                   _enrich_excel_path, _enrich_running, _collect_dates_event,
                   _collect_ticket_id, _collect_dates_excel_path,
                   _collect_dates_running>>
    /\ UNCHANGED <<appOnly, sessGhost, fileVars, pending_busy>>

\* run: launching the browser or loading the login page raises
RunFail ==
    /\ loop_pc.at = "launch"
    /\ loop_pc' = At("closed")
    /\ UNCHANGED <<sessionFieldVars, appOnly, sessGhost, fileVars, pending_busy>>

\* while not self._shutdown_event.is_set()
LoopTop ==
    /\ loop_pc.at = "top"
    /\ loop_pc' = IF _shutdown_event THEN At("closed") ELSE At("table1")
    /\ UNCHANGED <<sessionFieldVars, appOnly, sessGhost, fileVars, pending_busy>>

\* the loop calls job for signal sig
Dispatch(sig, job, arg) ==
    /\ loop_pc' = after_dispatch(loop_pc.at, job, arg)
    /\ executing' = executing \cup {job}
    /\ job_from_busy' = (sig \in pending_busy)
    /\ pending_busy' = pending_busy \ {sig}

\* the loop goes on to its next check
Pass ==
    /\ loop_pc' = At(NextCheck(loop_pc.at))
    /\ UNCHANGED <<sessGhost, pending_busy>>

\* if self._extract_events[k].is_set(): clear it and call _do_extract
CheckExtract ==
    \E k \in TableKeys :
        /\ loop_pc = At(k)
        /\ IF _extract_events[k]
           THEN /\ _extract_events' = [_extract_events EXCEPT ![k] = FALSE]
                /\ Dispatch(k, k, _extract_modes[k])
           ELSE /\ Pass
                /\ UNCHANGED _extract_events
        /\ UNCHANGED <<_extract_modes, _shutdown_event, _enrich_event,
                       _enrich_excel_path, _enrich_running, _collect_dates_event,
                       _collect_ticket_id, _collect_dates_excel_path,
                       _collect_dates_running, _page_ready>>
        /\ UNCHANGED <<appOnly, fileVars>>

\* if self._enrich_event.is_set(): clear it and call _do_enrich_missing
CheckEnrich ==
    /\ loop_pc = At("enrich")
    /\ IF _enrich_event
       THEN /\ _enrich_event' = FALSE
            /\ Dispatch("enrich", "enrich", "")
       ELSE /\ Pass
            /\ UNCHANGED _enrich_event
    /\ UNCHANGED <<_extract_events, _extract_modes, _shutdown_event,
                   _enrich_excel_path, _enrich_running, _collect_dates_event,
                   _collect_ticket_id, _collect_dates_excel_path,
                   _collect_dates_running, _page_ready>>
    /\ UNCHANGED <<appOnly, fileVars>>

\* if self._collect_dates_event.is_set(): clear it, take the stored path and
\* ticket, reset them, and call the collection or the navigation
CheckCollect ==
    /\ loop_pc = At("collect")
    /\ IF _collect_dates_event
       THEN /\ _collect_dates_event' = FALSE
            /\ _collect_dates_excel_path' = NoPath
            /\ _collect_ticket_id' = NoTicket
            /\ IF _collect_dates_excel_path # NoPath
               THEN Dispatch("collect", "collect_excel", _collect_dates_excel_path)
               ELSE Dispatch("collect", "collect_nav", _collect_ticket_id)
       ELSE /\ Pass
            /\ UNCHANGED <<_collect_dates_event, _collect_dates_excel_path,
                           _collect_ticket_id>>
    /\ UNCHANGED <<_extract_events, _extract_modes, _shutdown_event, _enrich_event,
                   _enrich_excel_path, _enrich_running, _collect_dates_running,
                   _page_ready>>
    /\ UNCHANGED <<appOnly, fileVars>>

\* page.wait_for_timeout(250)
LoopWait ==
    /\ loop_pc = At("wait")
    /\ loop_pc' = At("top")
    /\ UNCHANGED <<sessionFieldVars, appOnly, sessGhost, fileVars, pending_busy>>

\* ---- the jobs, as far as the loop and the file see them
\* the job returns to the loop
Return ==
    /\ loop_pc' = At(NextCheck(loop_pc.at))
    /\ executing' = executing \ {loop_pc.job}
    /\ job_from_busy' = FALSE

\* _do_extract of table1 in manual mode navigates and then waits for the
\* operator's click on 'Aplicar'; the other jobs go on with their work
first_phase(job, mode) ==
    IF job = "table1" /\ mode = "manual" THEN "wait_apply" ELSE "run"

WaitingForApply == loop_pc.ph = "wait_apply"

\* the first statements of the job: the early returns, the running flag
JobEntry ==
    /\ loop_pc.ph = "entry"
    /\ LET job == loop_pc.job
           refused ==
               \/ job = "enrich" /\ (_enrich_excel_path = NoPath \/ _enrich_running)
               \/ job = "collect_excel" /\ _collect_dates_running
               \/ job = "collect_nav" /\ loop_pc.arg = NoTicket
       IN  /\ IF refused THEN Return
              ELSE /\ loop_pc' = [loop_pc EXCEPT !.ph = first_phase(job, loop_pc.arg)]
                   /\ UNCHANGED sessGhost
           /\ _enrich_running' = (_enrich_running \/ (job = "enrich" /\ ~refused))
           /\ _collect_dates_running' =
                  (_collect_dates_running \/ (job = "collect_excel" /\ ~refused))
    /\ UNCHANGED <<_extract_events, _extract_modes, _shutdown_event, _enrich_event,
                   _enrich_excel_path, _collect_dates_event, _collect_ticket_id,
                   _collect_dates_excel_path, _page_ready>>
    /\ UNCHANGED <<appOnly, fileVars, pending_busy>>

\* _wait_for_apply_click: the listener has counted a click of the operator,
\* and the wait returns
ApplyClicked ==
    /\ WaitingForApply
    /\ loop_pc' = [loop_pc EXCEPT !.ph = "run"]
    /\ UNCHANGED <<sessionFieldVars, appOnly, sessGhost, fileVars, pending_busy>>

\* _wait_for_apply_click: more than timeout_s (900 s) have passed, the wait
\* raises TimeoutError; _do_extract turns it into a message and returns
ApplyTimeout ==
    /\ WaitingForApply
    /\ loop_pc' = [loop_pc EXCEPT !.ph = "after"]
    /\ UNCHANGED <<sessionFieldVars, appOnly, sessGhost, fileVars, pending_busy>>

\* the job loads the workbook: extract_tickets_to_excel and
\* extract_customers_to_excel once, the collection once, enrich-missing for
\* the list of IDs, for each customer found and for its closing merge
JobLoad ==
    /\ loop_pc.job \in FileJobs
    /\ \/ loop_pc.ph = "run"
       \/ loop_pc.ph = "after" /\ loop_pc.job = "enrich"
    /\ loop_pc' = [loop_pc EXCEPT !.ph = "loaded"]
    /\ load(loop_pc.job)
    /\ UNCHANGED <<sessionFieldVars, appOnly, sessGhost, pending_busy>>

\* the job saves the workbook it loaded
JobSave ==
    /\ loop_pc.ph = "loaded"
    /\ loop_pc' = [loop_pc EXCEPT !.ph = "after"]
    /\ save(loop_pc.job, TRUE)
    /\ UNCHANGED <<sessionFieldVars, appOnly, sessGhost, pending_busy>>

\* the collection saves the workbook and goes on with it
CollectPeriodicSave ==
    /\ loop_pc.ph = "loaded"
    /\ loop_pc.job = "collect_excel"
    /\ save(loop_pc.job, FALSE)
    /\ UNCHANGED <<sessionFieldVars, appOnly, loop_pc, sessGhost, pending_busy>>

\* the workbook was only read, or an error came before the save
JobDrop ==
    /\ loop_pc.ph = "loaded"
    /\ loop_pc' = [loop_pc EXCEPT !.ph = "after"]
    /\ drop(loop_pc.job)
    /\ UNCHANGED <<sessionFieldVars, appOnly, sessGhost, pending_busy>>

\* the job returns (its finally clause clears its running flag)
JobReturn ==
    /\ loop_pc.ph \in {"run", "after"}
    /\ Return
    /\ _enrich_running' = (_enrich_running /\ loop_pc.job # "enrich")
    /\ _collect_dates_running' =
           (_collect_dates_running /\ loop_pc.job # "collect_excel")
    /\ UNCHANGED <<_extract_events, _extract_modes, _shutdown_event, _enrich_event,
                   _enrich_excel_path, _collect_dates_event, _collect_ticket_id,
                   _collect_dates_excel_path, _page_ready>>
    /\ UNCHANGED <<appOnly, fileVars, pending_busy>>

\* an error the job does not catch: _get_scope is called before the try of
\* _do_extract, and the try of _do_collect_dates_from_excel has a finally
\* clause and no handler for what the workbook's cells and its save raise
\* other than PermissionError; the error leaves _event_loop, and run closes
\* the browser
JobRaise ==
    /\ \/ loop_pc.job \in TableKeys /\ loop_pc.ph = "entry"
       \/ loop_pc.job = "collect_excel" /\ loop_pc.ph = "loaded"
    /\ loop_pc' = At("closed")
    /\ executing' = executing \ {loop_pc.job}
    /\ job_from_busy' = FALSE
    /\ drop(loop_pc.job)
    /\ _collect_dates_running' =
           (_collect_dates_running /\ loop_pc.job # "collect_excel")
    /\ UNCHANGED <<_extract_events, _extract_modes, _shutdown_event, _enrich_event,
                   _enrich_excel_path, _enrich_running, _collect_dates_event,
                   _collect_ticket_id, _collect_dates_excel_path, _page_ready>>
    /\ UNCHANGED <<appOnly, pending_busy>>

\* the rest of the module's state is not the application's
SessFrame == UNCHANGED <<keyVars, mergeVars, collectVars, extractVars, reorderVars, apiVars, headerVars, stepVars, raceVars, resumeVars>>

\* the session, the requests made to it and its thread
SessNext ==
    \/ OnOpen /\ SessFrame
    \/ OnExtract1 /\ SessFrame
    \/ OnExtract2 /\ SessFrame
    \/ OnEnrichMissing /\ SessFrame
    \/ EnrichThreadJob /\ SessFrame
    \/ RequestCollectDatesFromExcel /\ SessFrame
    \/ RequestCollectDatesNav /\ SessFrame
    \/ OnClose /\ SessFrame
    \/ RunReady /\ SessFrame
    \/ RunFail /\ SessFrame
    \/ LoopTop /\ SessFrame
    \/ CheckExtract /\ SessFrame
    \/ CheckEnrich /\ SessFrame
    \/ CheckCollect /\ SessFrame
    \/ LoopWait /\ SessFrame
    \/ JobEntry /\ SessFrame
    \/ JobLoad /\ SessFrame
    \/ JobSave /\ SessFrame
    \/ CollectPeriodicSave /\ SessFrame
    \/ JobDrop /\ SessFrame
    \/ JobReturn /\ SessFrame
    \/ JobRaise /\ SessFrame
    \/ ApplyClicked /\ SessFrame
    \/ ApplyTimeout /\ SessFrame

\* the session together with the merge and reorder threads of the application
AppNext ==
    \/ SessNext
    \/ OnMerge /\ SessFrame
    \/ OnReorder /\ SessFrame
    \/ WorkerLoad /\ SessFrame
    \/ WorkerFail /\ SessFrame
    \/ WorkerSave /\ SessFrame
    \/ WorkerRaise /\ SessFrame

(***************************************************************************)
(* The date collection (splynx_playwright.py:                              *)
(* SplynxSession._do_collect_dates_from_excel, _load_progress,             *)
(* _save_progress, _ensure_excel_backup, _atomic_save_workbook) on the     *)
(* 'Datos Completos' sheet of the workbook file, with the checkpoint file  *)
(* and the backup file next to it.  A sheet is [exists, hdr, rows]: hdr    *)
(* says that the three date columns have their headers, a row is           *)
(* [id, esc, res, cie] and stands at sheet row (its position + 1).         *)
(***************************************************************************)
MaxRows == 2

MaxCollectRuns == 2

MaxKills == 1

\* the workbook is saved when updated + failed is a multiple of this
SaveEvery == 10

MaxAttempts == 3

DateText == <<"2", "0", "2", "6">>

NAText == <<"N", "/", "A">>

\* the rows a 'Datos Completos' sheet may hold: dates to be collected, all
\* three present, one written as 'Na', no usable ID; a lookup that finds no
\* date leaves 'N/A' in a cell
RowKinds ==
    { [id |-> PyInt(7), esc |-> PyNone, res |-> PyNone, cie |-> PyNone],
      [id |-> PyInt(8), esc |-> PyStr(DateText), res |-> PyStr(DateText),
       cie |-> PyStr(DateText)],
      [id |-> PyStr(<<"R", "9">>), esc |-> PyStr(DateText),
       res |-> PyStr(DateText), cie |-> PyStr(<<" ", "N", "a">>)],
      [id |-> PyNone, esc |-> PyNone, res |-> PyNone, cie |-> PyNone] }

NoSheet == [exists |-> FALSE, hdr |-> FALSE, rows |-> <<>>]

\* the sheets: as the merge leaves them (no date column yet), and with the
\* date columns of an earlier collection
CollectSheets ==
    { [exists |-> TRUE, hdr |-> h, rows |-> rows]
        : h \in BOOLEAN,
          rows \in UNION {[1..n -> RowKinds] : n \in 0..MaxRows} }

\* a sheet without the date columns has no date cell
WellFormedSheet(sh) ==
    sh.hdr \/ \A r \in 1..Len(sh.rows) :
                 sh.rows[r].esc = PyNone /\ sh.rows[r].res = PyNone /\ sh.rows[r].cie = PyNone

NoCheckpoint ==
    [exists |-> FALSE, last_row_idx |-> 0, updated |-> 0, skipped |-> 0,
     failed |-> 0, done |-> FALSE]

NoCounters == [updated |-> 0, skipped |-> 0, failed |-> 0]

\* _is_missing(v) on the text v of a cell: blank, 'N/A' or 'NA' in any case
_is_missing(v) ==
    \/ Len(Strip(v)) = 0
    \/ Lower(Strip(v)) \in {<<"n", "/", "a">>, <<"n", "a">>}

\* str(ws.cell(...).value or "").strip()
existing(cell) == StrOrEmpty(cell)

\* a row taken as complete as soon as its first date cell holds a real value
row_complete_first_only(row) == ~_is_missing(existing(row.esc))

\* all three date cells hold real values: the row is skipped
row_complete(row) ==
    /\ ~_is_missing(existing(row.esc))
    /\ ~_is_missing(existing(row.res))
    /\ ~_is_missing(existing(row.cie))

\* ticket_rows: the sheet rows (row_idx) whose ID gives a key, in sheet order
RECURSIVE collect_ticket_rows(_, _)
collect_ticket_rows(rows, r) ==
    IF r > Len(rows) THEN <<>>
    ELSE (IF Len(Session_id_key(rows[r].id)) > 0 THEN <<r + 1>> ELSE <<>>)
         \o collect_ticket_rows(rows, r + 1)

\* int(progress.get("last_row_idx") or 0)
start_row_idx_of(progress) == IF progress.exists THEN progress.last_row_idx ELSE 0

\* the position after the checkpointed row in the list, 0 when the row is
\* not in the list
start_index_of(list, start_row_idx) ==
    IF start_row_idx # 0 /\ \E i \in 1..Len(list) : list[i] = start_row_idx
    THEN CHOOSE i \in 1..Len(list) : list[i] = start_row_idx
    ELSE 0

\* updated = 0, skipped = 0, failed = 0: the counters of the checkpoint are
\* not read
start_counters(progress) == NoCounters

\* what a lookup that succeeds may return: the three dates, or the first only
LookupResults ==
    { [esc |-> DateText, res |-> DateText, cie |-> DateText],
      [esc |-> DateText, res |-> <<>>, cie |-> <<>>] }

\* esc_dt or "N/A"
or_na(text) == IF Len(text) > 0 THEN text ELSE NAText

\* a lookup that writes its three results whatever the cells hold
row_written_all(row, got) ==
    [id |-> row.id, esc |-> PyStr(or_na(got.esc)), res |-> PyStr(or_na(got.res)),
     cie |-> PyStr(or_na(got.cie))]

\* the row after a lookup that succeeded: only missing cells are written
row_written(row, got) ==
    [id |-> row.id,
     esc |-> IF _is_missing(existing(row.esc)) THEN PyStr(or_na(got.esc)) ELSE row.esc,
     res |-> IF _is_missing(existing(row.res)) THEN PyStr(or_na(got.res)) ELSE row.res,
     cie |-> IF _is_missing(existing(row.cie)) THEN PyStr(or_na(got.cie)) ELSE row.cie]

\* (updated + failed) % 10 == 0 or more than 30 seconds since the last save
save_due(cnt, timeup) == (cnt.updated + cnt.failed) % SaveEvery = 0 \/ timeup

CollectList == collect_ticket_rows(c_wb.rows, 1)

\* the sheet row the loop is at
CollectRowIdx == CollectList[c_i + 1]

CollectRunning ==
    c_pc \in {"row", "lookup", "recover", "ckpt", "save", "final", "mark"}

CollectInit ==
    /\ c_disk \in {sh \in CollectSheets : WellFormedSheet(sh)} \cup {NoSheet}
    /\ c_bak = NoSheet
    /\ c_ckpt = NoCheckpoint
    /\ c_wb = NoSheet
    /\ c_pc = "idle"
    /\ c_i = 0
    /\ c_start = 0
    /\ c_cnt = NoCounters
    /\ c_attempt = 0
    /\ c_runs = 0
    /\ c_kills = 0
    /\ c_looked = {}
    /\ c_collected = {}

CollectIdle ==
    /\ c_disk = NoSheet
    /\ c_bak = NoSheet
    /\ c_ckpt = NoCheckpoint
    /\ c_wb = NoSheet
    /\ c_pc = "idle"
    /\ c_i = 0
    /\ c_start = 0
    /\ c_cnt = NoCounters
    /\ c_attempt = 0
    /\ c_runs = 0
    /\ c_kills = 0
    /\ c_looked = {}
    /\ c_collected = {}

\* a run that makes no backup copy
no_backup(bak, disk) == bak

\* _ensure_excel_backup(excel_path): the '.bak' file after the call, a copy
\* of the file when there was none
_ensure_excel_backup(bak, disk) == IF bak.exists THEN bak ELSE disk

\* the start of a run, up to the first row: the sheet is loaded and checked,
\* the date headers are added in memory, the backup is made once, the
\* checkpoint is read
CollectStart ==
    /\ ~CollectRunning
    /\ c_runs < MaxCollectRuns
    /\ c_runs' = c_runs + 1
    /\ c_looked' = {}
    /\ c_attempt' = 0
    /\ IF \/ ~c_disk.exists
          \/ Len(c_disk.rows) = 0
          \/ Len(collect_ticket_rows(c_disk.rows, 1)) = 0
       THEN /\ c_pc' = "ended"
            /\ c_wb' = NoSheet
            /\ UNCHANGED <<c_bak, c_i, c_start, c_cnt>>
       ELSE /\ c_wb' = [c_disk EXCEPT !.hdr = TRUE]
            /\ c_bak' = _ensure_excel_backup(c_bak, c_disk)
            /\ c_start' = start_index_of(collect_ticket_rows(c_disk.rows, 1),
                                         start_row_idx_of(c_ckpt))
            /\ c_i' = c_start'
            /\ c_cnt' = start_counters(c_ckpt)
            /\ c_pc' = "row"
    /\ c_collected' = IF c_kills = 0 THEN {} ELSE c_collected
    /\ UNCHANGED <<c_disk, c_ckpt, c_kills>>

\* the head of the loop: the run is over, or the row is skipped, or looked up
CollectRow ==
    /\ c_pc = "row"
    /\ IF c_i >= Len(CollectList)
       THEN /\ c_pc' = "final"
            /\ UNCHANGED <<c_i, c_cnt, c_attempt>>
       ELSE IF row_complete(c_wb.rows[CollectRowIdx - 1])
       THEN /\ c_cnt' = [c_cnt EXCEPT !.skipped = @ + 1]
            /\ c_i' = c_i + 1
            /\ UNCHANGED <<c_pc, c_attempt>>
       ELSE /\ c_pc' = "lookup"
            /\ c_attempt' = 1
            /\ UNCHANGED <<c_i, c_cnt>>
    /\ UNCHANGED <<c_disk, c_bak, c_ckpt, c_wb, c_start, c_runs, c_kills,
                   c_looked, c_collected>>

\* the attempts of a row made one after the other, with no page recovery
\* between them
CollectLookupInPlace ==
    /\ c_pc = "lookup"
    /\ c_looked' = c_looked \cup {CollectRowIdx}
    /\ \/ \E got \in LookupResults :
            \E row \in {row_written(c_wb.rows[CollectRowIdx - 1], got)} :
               /\ c_wb' = [c_wb EXCEPT !.rows[CollectRowIdx - 1] = row]
               /\ c_cnt' = [c_cnt EXCEPT !.updated = @ + 1]
               /\ c_pc' = "ckpt"
               /\ c_collected' =
                      IF c_kills = 0
                      THEN {e \in c_collected : e.r # CollectRowIdx}
                           \cup {[r |-> CollectRowIdx, row |-> row]}
                      ELSE c_collected
               /\ UNCHANGED c_attempt
       \/ \E retryable \in BOOLEAN :
            IF retryable /\ c_attempt < MaxAttempts
            THEN /\ c_attempt' = c_attempt + 1
                 /\ UNCHANGED <<c_wb, c_cnt, c_pc, c_collected>>
            ELSE /\ c_cnt' = [c_cnt EXCEPT !.failed = @ + 1]
                 /\ c_pc' = "ckpt"
                 /\ UNCHANGED <<c_wb, c_attempt, c_collected>>
    /\ UNCHANGED <<c_disk, c_bak, c_ckpt, c_i, c_start, c_runs, c_kills>>

\* one attempt of _collect_dates_for_ticket: it returns, or raises an error
\* that is retried (after the page recovery) or not
CollectLookup ==
    /\ c_pc = "lookup"
    /\ c_looked' = c_looked \cup {CollectRowIdx}
    /\ \/ \E got \in LookupResults :
            \E row \in {row_written(c_wb.rows[CollectRowIdx - 1], got)} :
               /\ c_wb' = [c_wb EXCEPT !.rows[CollectRowIdx - 1] = row]
               /\ c_cnt' = [c_cnt EXCEPT !.updated = @ + 1]
               /\ c_pc' = "ckpt"
               /\ c_collected' =
                      IF c_kills = 0
                      THEN {e \in c_collected : e.r # CollectRowIdx}
                           \cup {[r |-> CollectRowIdx, row |-> row]}
                      ELSE c_collected
               /\ UNCHANGED c_attempt
       \/ \E retryable \in BOOLEAN :
            IF retryable /\ c_attempt < MaxAttempts
            THEN /\ c_pc' = "recover"
                 /\ UNCHANGED <<c_wb, c_cnt, c_attempt, c_collected>>
            ELSE /\ c_cnt' = [c_cnt EXCEPT !.failed = @ + 1]
                 /\ c_pc' = "ckpt"
                 /\ UNCHANGED <<c_wb, c_attempt, c_collected>>
    /\ UNCHANGED <<c_disk, c_bak, c_ckpt, c_i, c_start, c_runs, c_kills>>

\* _recover_page_after_error(page) and the pause, then the next attempt
CollectRecover ==
    /\ c_pc = "recover"
    /\ c_pc' = "lookup"
    /\ c_attempt' = c_attempt + 1
    /\ UNCHANGED <<c_disk, c_bak, c_ckpt, c_wb, c_i, c_start, c_cnt, c_runs,
                   c_kills, c_looked, c_collected>>

\* a row looked up whose checkpoint is not written
CollectCheckpointLost ==
    /\ c_pc = "ckpt"
    /\ c_pc' = "save"
    /\ UNCHANGED <<c_disk, c_bak, c_ckpt, c_wb, c_i, c_start, c_cnt, c_attempt,
                   c_runs, c_kills, c_looked, c_collected>>

\* _save_progress after a row looked up
CollectCheckpoint ==
    /\ c_pc = "ckpt"
    /\ c_pc' = "save"
    /\ c_ckpt' = [exists |-> TRUE, last_row_idx |-> CollectRowIdx,
                  updated |-> c_cnt.updated, skipped |-> c_cnt.skipped,
                  failed |-> c_cnt.failed, done |-> FALSE]
    /\ UNCHANGED <<c_disk, c_bak, c_wb, c_i, c_start, c_cnt, c_attempt, c_runs,
                   c_kills, c_looked, c_collected>>

\* the periodic save of the workbook, when it is due; a PermissionError ends
\* the run; the attempts of the row are over
CollectSavePeriodic ==
    /\ c_pc = "save"
    /\ \E timeup \in BOOLEAN, locked \in BOOLEAN :
          IF ~save_due(c_cnt, timeup)
          THEN /\ c_pc' = "row"
               /\ c_i' = c_i + 1
               /\ UNCHANGED <<c_disk, c_wb>>
          ELSE IF locked
          THEN /\ c_pc' = "ended"
               /\ c_wb' = NoSheet
               /\ UNCHANGED <<c_disk, c_i>>
          ELSE /\ c_disk' = c_wb
               /\ c_pc' = "row"
               /\ c_i' = c_i + 1
               /\ UNCHANGED c_wb
    /\ c_attempt' = 0
    /\ UNCHANGED <<c_bak, c_ckpt, c_start, c_cnt, c_runs, c_kills, c_looked,
                   c_collected>>

\* a save at the end of the loop whose failure is not looked at
CollectFinalSaveUnchecked ==
    /\ c_pc = "final"
    /\ c_pc' = "mark"
    /\ \E locked \in BOOLEAN : c_disk' = IF locked THEN c_disk ELSE c_wb
    /\ UNCHANGED <<c_bak, c_ckpt, c_wb, c_i, c_start, c_cnt, c_attempt, c_runs,
                   c_kills, c_looked, c_collected>>

\* the save at the end of the loop
CollectFinalSave ==
    /\ c_pc = "final"
    /\ \E locked \in BOOLEAN :
          IF locked
          THEN /\ c_pc' = "ended"
               /\ c_wb' = NoSheet
               /\ UNCHANGED c_disk
          ELSE /\ c_disk' = c_wb
               /\ c_pc' = "mark"
               /\ UNCHANGED c_wb
    /\ UNCHANGED <<c_bak, c_ckpt, c_i, c_start, c_cnt, c_attempt, c_runs, c_kills,
                   c_looked, c_collected>>

\* the checkpoint of a finished run: done, the counters, no row
CollectMarkDone ==
    /\ c_pc = "mark"
    /\ c_pc' = "done"
    /\ c_wb' = NoSheet
    /\ c_ckpt' = [exists |-> TRUE, last_row_idx |-> 0,
                  updated |-> c_cnt.updated, skipped |-> c_cnt.skipped,
                  failed |-> c_cnt.failed, done |-> TRUE]
    /\ UNCHANGED <<c_disk, c_bak, c_i, c_start, c_cnt, c_attempt, c_runs, c_kills,
                   c_looked, c_collected>>

\* the process is killed during a run: the files stay, the memory is lost
CollectKill ==
    /\ CollectRunning
    /\ c_kills < MaxKills
    /\ c_kills' = c_kills + 1
    /\ c_pc' = "killed"
    /\ c_wb' = NoSheet
    /\ c_attempt' = 0
    /\ UNCHANGED <<c_disk, c_bak, c_ckpt, c_i, c_start, c_cnt, c_runs, c_looked,
                   c_collected>>

(***************************************************************************)
(* table_extract.extract_tickets_to_excel: the tickets table of the portal *)
(* written to the sheet 'Datos de Tickets' of the workbook file.           *)
(* The table is its header texts and its pages, a page its rows, a row the *)
(* texts of its cells.                                                     *)
(***************************************************************************)
\* the aliases of each column of col_map, in the order _pick_idx tries them
tickets_aliases ==
    <<
       << <<"I", "D">> >>,
       << <<"T", "e", "m", "a">>,
          <<"S", "u", "b", "j", "e", "c", "t">> >>,
       << <<"C", "u", "s", "t", "o", "m", "e", "r", " ", "/", " ", "L", "e", "a", "d">>,
          <<"C", "u", "s", "t", "o", "m", "e", "r", "/", "L", "e", "a", "d">>,
          <<"C", "u", "s", "t", "o", "m", "e", "r">>,
          <<"L", "e", "a", "d">> >>,
       << <<"P", "r", "i", "o", "r", "i", "d", "a", "d">>,
          <<"P", "r", "i", "o", "r", "i", "t", "y">> >>,
       << <<"E", "s", "t", "a", "d", "o">>,
          <<"S", "t", "a", "t", "u", "s">> >>,
       << <<"G", "r", "o", "u", "p">>,
          <<"G", "r", "u", "p", "o">> >>,
       << <<"T", "i", "p", "o">>,
          <<"T", "y", "p", "e">> >>,
       << <<"A", "s", "i", "g", "n", "a", "d", "o", " ", "a">>,
          <<"A", "s", "s", "i", "g", "n", "e", "e">>,
          <<"A", "s", "s", "i", "g", "n", "e", "d", " ", "t", "o">> >>,
       << <<"W", "a", "t", "c", "h", "i", "n", "g">>,
          <<"W", "a", "t", "c", "h", "e", "r", "s">> >>,
       << <<"L", "a", "b", "e", "l", "s">>,
          <<"E", "t", "i", "q", "u", "e", "t", "a", "s">> >>,
       << <<"R", "e", "p", "o", "r", "t", "e", "r">>,
          <<"R", "e", "p", "o", "r", "t", "e", "r", "o">> >>,
       << <<"R", "e", "p", "o", "r", "t", "e", "r", " ", "I", "D">>,
          <<"R", "e", "p", "o", "r", "t", "e", "r", "I", "D">> >>,
       << <<"R", "e", "p", "o", "r", "t", "e", "r", " ", "t", "y", "p", "e">>,
          <<"R", "e", "p", "o", "r", "t", "e", "r", " ", "T", "y", "p", "e">> >>,
       << <<"I", "D", " ", "C", "l", "i", "e", "n", "t", "e">>,
          <<"I", "D", " ", "c", "l", "i", "e", "n", "t", "e">>,
          <<"I", "D", " ", "d", "e", " ", "c", "l", "i", "e", "n", "t", "e">>,
          <<"I", "D", " ", "d", "e", " ", "c", "l", "i", "e", "n", "t", "e", "s">>,
          <<"I", "D", " ", "d", "e", "l", " ", "c", "l", "i", "e", "n", "t", "e">>,
          <<"C", "u", "s", "t", "o", "m", "e", "r", " ", "I", "D">>,
          <<"C", "l", "i", "e", "n", "t", " ", "I", "D">> >>,
       << <<"I", "n", "c", "o", "m", "i", "n", "g", " ", "C", "u", "s", "t", "o", "m", "e", "r">> >>,
       << <<"H", "i", "d", "e">> >>,
       << <<"T", "a", "s", "k">>,
          <<"T", "a", "r", "e", "a">> >>,
       << <<"E", "s", "t", "r", "e", "l", "l", "a">>,
          <<"S", "t", "a", "r">> >>,
       << <<"C", "r", "e", "a", "d", "o", " ", "(", "f", "e", "c", "h", "a", " ", "y", " ", "h", "o", "r", "a", ")">>,
          <<"C", "r", "e", "a", "d", "o", " ", "d", "e", " ", "f", "e", "c", "h", "a", " ", "y", " ", "h", "o", "r", "a">>,
          <<"C", "r", "e", "a", "d", "o">>,
          <<"C", "r", "e", "a", "t", "e", "d">>,
          <<"C", "r", "e", "a", "t", "e", "d", " ", "a", "t">>,
          <<"F", "e", "c", "h", "a", " ", "d", "e", " ", "c", "r", "e", "a", "c", "i", "ó", "n">>,
          <<"F", "e", "c", "h", "a", " ", "y", " ", "h", "o", "r", "a", " ", "d", "e", " ", "c", "r", "e", "a", "c", "i", "o", "n">> >>,
       << <<"S", "o", "u", "r", "c", "e">>,
          <<"O", "r", "i", "g", "e", "n">> >>,
       << <<"A", "c", "t", "u", "a", "l", "i", "z", "a", "d", "o", " ", "(", "f", "e", "c", "h", "a", " ", "y", " ", "h", "o", "r", "a", ")">>,
          <<"f", "e", "c", "h", "a", " ", "y", " ", "h", "o", "r", "a", " ", "d", "e", " ", "a", "c", "t", "u", "a", "l", "i", "z", "a", "c", "i", "ó", "n">>,
          <<"F", "e", "c", "h", "a", " ", "y", " ", "h", "o", "r", "a", " ", "d", "e", " ", "a", "c", "t", "u", "a", "l", "i", "z", "a", "c", "i", "ó", "n">>,
          <<"A", "c", "t", "u", "a", "l", "i", "z", "a", "d", "o">>,
          <<"U", "p", "d", "a", "t", "e", "d">>,
          <<"U", "p", "d", "a", "t", "e", "d", " ", "a", "t">>,
          <<"F", "e", "c", "h", "a", " ", "d", "e", " ", "a", "c", "t", "u", "a", "l", "i", "z", "a", "c", "i", "ó", "n">>,
          <<"F", "e", "c", "h", "a", " ", "y", " ", "h", "o", "r", "a", " ", "d", "e", " ", "a", "c", "t", "u", "a", "l", "i", "z", "a", "c", "i", "o", "n">> >>,
       << <<"A", "r", "c", "h", "i", "v", "e">>,
          <<"A", "r", "c", "h", "i", "v", "a", "d", "o">> >>,
       << <<"S", "h", "a", "r", "e", "a", "b", "l", "e">> >>,
       << <<"N", "o", "t", "e">>,
          <<"N", "o", "t", "a">> >>,
       << <<"S", "u", "b", "-", "t", "i", "p", "o", " ", "d", "e", " ", "T", "i", "c", "k", "e", "t">>,
          <<"S", "u", "b", "-", "t", "y", "p", "e">>,
          <<"S", "u", "b", "t", "y", "p", "e">> >>,
       << <<"C", "a", "t", "e", "g", "o", "r", "i", "a", " ", "d", "e", "l", " ", "C", "i", "e", "r", "r", "e">>,
          <<"C", "l", "o", "s", "u", "r", "e", " ", "c", "a", "t", "e", "g", "o", "r", "y">>,
          <<"C", "l", "o", "s", "e", " ", "c", "a", "t", "e", "g", "o", "r", "y">> >>,
       << <<"P", "r", "o", "m", "o", "c", "i", "o", "n">>,
          <<"P", "r", "o", "m", "o", "t", "i", "o", "n">> >>
    >>

MaxPages == 2

MaxExtractRuns == 2

MaxTimeouts == 1

\* " ".join(s.split())
JoinSplit(s) == Strip(CollapseSpace(s))

\* extract_tickets_to_excel._norm_header
tickets_norm_header(s) ==
    JoinSplit([i \in 1..Len(Strip(s)) |-> Unaccent(LowerChar(Strip(s)[i]))])

\* _header_index_map: the first column with a key keeps it (0-based in the
\* code, here from 1, and 0 for None)
_header_index_map(texts) ==
    [k \in {tickets_norm_header(texts[i]) : i \in 1..Len(texts)} \ {<<>>} |->
        SetMin({i \in 1..Len(texts) : tickets_norm_header(texts[i]) = k})]

RECURSIVE _pick_idx(_, _)
\* the column of the first alias the table has, or None
_pick_idx(header_map, aliases) ==
    IF Len(aliases) = 0 THEN 0
    ELSE IF /\ Len(aliases[1]) > 0
            /\ tickets_norm_header(aliases[1]) \in DOMAIN header_map
         THEN header_map[tickets_norm_header(aliases[1])]
         ELSE _pick_idx(header_map, Tail(aliases))

\* col_map: for each exported column, its column in the table
col_map_of(header_map) ==
    [i \in 1..Len(tickets_aliases) |-> _pick_idx(header_map, tickets_aliases[i])]

col_map(texts) == col_map_of(_header_index_map(texts))

\* re.search(r"(\d+)", text): the first run of digits
_normalize_id_cliente(text) ==
    IF Len(DigitRuns(text, 1)) = 0 THEN <<>> ELSE DigitRuns(text, 1)[1]

\* one cell of out_row
out_cell(idx, name, row) ==
    IF idx = 0 \/ idx > Len(row) THEN <<>>
    ELSE IF name = H_IDCliente
         THEN _normalize_id_cliente(JoinSplit(Strip(row[idx])))
         ELSE JoinSplit(Strip(row[idx]))

out_row(cols, row) ==
    [i \in 1..Len(cols) |-> out_cell(cols[i], ticket_out_cols[i], row)]

\* read_page_rows: the rows of the page that have a text in some column
read_page_rows(cols, page) ==
    SelectSeq([r \in 1..Len(page) |-> out_row(cols, page[r])],
              LAMBDA o : \E i \in 1..Len(o) : Len(o[i]) > 0)

\* is_next_enabled() while the table shows page p
is_next_enabled(pages, p) == p < Len(pages)

\* wait_page_changed(old) after the click on 'next' of page p: TRUE when it
\* returned (by its timeout, or after one second for an empty marker) while
\* the table still showed page p. stale is the set of such pages of the run.
still_shows(stale, p) == p \in stale

RECURSIVE read_pages(_, _, _, _)
\* the loop over the pages: the rows the table shows, then the click on
\* 'next' while it is enabled; a page the table still shows after the wait
\* is read again
read_pages(cols, pages, p, stale) ==
    IF p > Len(pages) THEN <<>>
    ELSE read_page_rows(cols, pages[p])
         \o (IF ~is_next_enabled(pages, p) THEN <<>>
             ELSE IF still_shows(stale, p)
                  THEN read_pages(cols, pages, p, stale \ {p})
                  ELSE read_pages(cols, pages, p + 1, stale))

TextRow(texts) == [c \in 1..Len(texts) |-> PyStr(texts[c])]

TextRows(rows) == [r \in 1..Len(rows) |-> TextRow(rows[r])]

\* what the run appends to the sheet: the names of col_map, then the rows
extracted_rows(table, stale) ==
    << TextRow(ticket_out_cols) >>
    \o TextRows(read_pages(col_map(table.headers), table.pages, 1, stale))

DefaultSheet == "Sheet"

\* Workbook(): one empty sheet named 'Sheet'
NewWorkbook == << [name |-> DefaultSheet, rows |-> <<>>] >>

\* table_extract._open_or_create_workbook
_open_or_create_workbook(disk) == IF disk = NoFile THEN NewWorkbook ELSE disk

\* wb.sheetnames == ["Sheet"] and wb["Sheet"].max_row == 1 and
\* wb["Sheet"].max_column == 1
only_default_sheet(wb) ==
    /\ Len(wb) = 1
    /\ wb[1].name = DefaultSheet
    /\ max_row(wb[1].rows) = 1
    /\ max_column(wb[1].rows) = 1

\* the second half of _get_fresh_sheet: the lone default sheet is renamed and
\* used with the cells it has, otherwise a sheet is created at the end
fresh_or_reused(wb, sheet_name) ==
    IF only_default_sheet(wb)
    THEN << [name |-> sheet_name, rows |-> wb[1].rows] >>
    ELSE CreateSheet(wb, sheet_name, <<>>)

\* _get_fresh_sheet(wb, sheet_name): the workbook with the sheet to write as
\* its last sheet
_get_fresh_sheet(wb, sheet_name) ==
    fresh_or_reused(RemoveSheet(wb, sheet_name), sheet_name)

\* ws.append(row) for each row: after the last row the sheet has
ws_append(wb, rows) ==
    [wb EXCEPT ![Len(wb)].rows = @ \o rows]

\* extract_tickets_to_excel(scope, output_xlsx, sheet_name): the workbook
\* saved, or the error of a file that cannot be read
extract_tickets_to_excel(disk, table, sheet_name, unreadable, stale) ==
    IF unreadable
    THEN [raised |-> TRUE, wb |-> disk]
    ELSE [raised |-> FALSE,
          wb |-> ws_append(_get_fresh_sheet(_open_or_create_workbook(disk),
                                            sheet_name),
                           extracted_rows(table, stale))]

(***************************************************************************)
(* The tables and the workbook files the extraction is run on              *)
(***************************************************************************)
PortalHeaders ==
    { << <<"I", "D">>, <<"T", "e", "m", "a">>, <<"I", "D", " ", "C", "l", "i", "e", "n", "t", "e">> >>,
      << <<" ", "s", "u", "b", "j", "e", "c", "t", " ">>, <<"I", "d">>,
         <<"C", "u", "s", "t", "o", "m", "e", "r", " ", " ", "I", "D">>, <<"I", "D">> >>,
      << <<>>, <<"I", "D">>, <<"T", "e", "m", "a">> >> }

PortalRow1 == << <<"7">>, <<" ", "a", " ", " ", "b", " ">>, <<"R", "9", "9", " ", "(", "l", "e", "a", "d", ")">> >>

PortalRow2 == << <<"8">> >>

PortalRowBlank == << <<" ">>, <<>>, <<"l", "e", "a", "d">> >>

PortalPages ==
    { <<>>, <<PortalRow1>>, <<PortalRow2>>, <<PortalRowBlank>>,
      <<PortalRow1, PortalRow2>> }

\* the row DataTables shows for an empty result: one td.dataTables_empty
\* that spans the columns and holds the message
EmptyResultRow == << <<"N", "o", " ", "d", "a", "t", "a">> >>

\* the table in its empty-result state: one page, the marker row, 'next'
\* disabled
EmptyResultPages == << <<EmptyResultRow>> >>

PortalTables ==
    [headers : PortalHeaders,
     pages : UNION {[1..n -> PortalPages] : n \in 1..MaxPages}
             \cup {EmptyResultPages}]

StaleTickets == [name |-> tickets_sheet, rows |-> << <<PyStr(H_ID)>>, <<PyInt(77)>> >>]

OtherSheet == [name |-> customers_sheet, rows |-> << <<PyStr(H_ID)>>, <<PyInt(55)>> >>]

\* a sheet named 'Sheet' with a text in A1 and nothing else
NoteSheet == [name |-> DefaultSheet, rows |-> << <<PyStr(<<"n", "o", "t", "e">>)>> >>]

\* a sheet named 'Sheet' with two rows
FullDefaultSheet ==
    [name |-> DefaultSheet, rows |-> << <<PyStr(H_ID)>>, <<PyInt(1)>> >>]

ExtractDisks ==
    { NoFile,
      <<StaleTickets>>,
      <<OtherSheet>>,
      <<StaleTickets, OtherSheet>>,
      <<OtherSheet, StaleTickets>>,
      NewWorkbook \o <<OtherSheet>>,
      <<NoteSheet>>,
      <<NoteSheet, StaleTickets>>,
      <<FullDefaultSheet, StaleTickets>> }

ExtractInit ==
    /\ x_disk \in ExtractDisks
    /\ x_table \in PortalTables
    /\ x_log = <<>>

ExtractIdle ==
    /\ x_disk = NoFile
    /\ x_table = [headers |-> <<>>, pages |-> <<>>]
    /\ x_log = <<>>

\* the pages after which a run may find the table unchanged when the wait
\* for the page change ends: at most MaxTimeouts of the pages with a 'next'
StalePages(pages) ==
    {st \in SUBSET (1..(Len(pages) - 1)) : Cardinality(st) <= MaxTimeouts}

\* SplynxSession._do_extract for table1: extract_tickets_to_excel on the
\* workbook file
ExtractTickets ==
    /\ Len(x_log) < MaxExtractRuns
    /\ \E unreadable \in (IF x_disk = NoFile THEN {FALSE} ELSE BOOLEAN) :
       \E stale \in StalePages(x_table.pages) :
       \E res \in {extract_tickets_to_excel(x_disk, x_table, tickets_sheet,
                                             unreadable, stale)} :
           /\ x_disk' = res.wb
           /\ x_log' = Append(x_log, [raised |-> res.raised, before |-> x_disk,
                                      after |-> res.wb, stale |-> stale])
    /\ UNCHANGED x_table


(***************************************************************************)
(* excel_reorder.reorder_datos_completos_by_template: the columns of       *)
(* 'Datos Completos' put in the order of row 1 of the template.            *)
(***************************************************************************)
MaxReorderRuns == 2

\* [a-z0-9]
IsAlnum(c) ==
    \/ IsDigit(c)
    \/ \E i \in 1..26 : LowerChars[i] = c

RECURSIVE WordEnd(_, _)
\* the position after the run of [a-z0-9] that starts at position i
WordEnd(s, i) ==
    IF i <= Len(s) /\ IsAlnum(s[i]) THEN WordEnd(s, i + 1) ELSE i

RECURSIVE Words(_, _)
\* re.sub(r"[^a-z0-9]+", " ", s).split(), read from position i on
Words(s, i) ==
    IF i > Len(s) THEN <<>>
    ELSE IF IsAlnum(s[i])
         THEN <<SubSeq(s, i, WordEnd(s, i) - 1)>> \o Words(s, WordEnd(s, i))
         ELSE Words(s, i + 1)

\* stop
StopWords ==
    { <<"d", "e">>, <<"d", "e", "l">>, <<"l", "a">>, <<"e", "l">>, <<"l", "o", "s">>, <<"l", "a", "s">>, <<"y">>, <<"a">>, <<"a", "l">> }

RECURSIVE JoinWords(_)
\* " ".join(tokens)
JoinWords(tokens) ==
    IF Len(tokens) = 0 THEN <<>>
    ELSE IF Len(tokens) = 1 THEN tokens[1]
         ELSE tokens[1] \o <<" ">> \o JoinWords(Tail(tokens))

\* excel_reorder._norm_key
_norm_key(value) ==
    JoinWords(SelectSeq(Words([i \in 1..Len(Strip(value)) |->
                                  Unaccent(LowerChar(Strip(value)[i]))], 1),
                        LAMBDA t : t \notin StopWords))

RECURSIVE DropTrailingEmpty(_)
\* while headers and not headers[-1]: headers.pop()
DropTrailingEmpty(headers) ==
    IF Len(headers) > 0 /\ Len(headers[Len(headers)]) = 0
    THEN DropTrailingEmpty(SubSeq(headers, 1, Len(headers) - 1))
    ELSE headers

\* excel_reorder._sheet_headers: row 1 as stripped texts, "" for None
_sheet_headers(ws) ==
    DropTrailingEmpty([c \in 1..max_column(ws) |->
        IF Cell(ws, 1, c).t = "none" THEN <<>> ELSE Strip(PyToStr(Cell(ws, 1, c)))])

\* excel_reorder._build_col_index: the first column with a key keeps it
_build_col_index(headers) ==
    [k \in {_norm_key(headers[i]) : i \in 1..Len(headers)} \ {<<>>} |->
        SetMin({i \in 1..Len(headers) : _norm_key(headers[i]) = k})]

\* alias: template text -> source text, both through _norm_key
AliasPairs ==
    << <<<<"f", "e", "c", "h", "a", " ", "y", " ", "h", "o", "r", "a", " ", "d", "e", " ", "a", "c", "t", "u", "a", "l", "i", "z", "a", "c", "i", "ó", "n">>, <<"A", "c", "t", "u", "a", "l", "i", "z", "a", "d", "o", " ", "(", "f", "e", "c", "h", "a", " ", "y", " ", "h", "o", "r", "a", ")">>>>,
       <<<<"a", "c", "t", "u", "a", "l", "i", "z", "a", "c", "i", "o", "n">>, <<"A", "c", "t", "u", "a", "l", "i", "z", "a", "d", "o", " ", "(", "f", "e", "c", "h", "a", " ", "y", " ", "h", "o", "r", "a", ")">>>>,
       <<<<"c", "r", "e", "a", "d", "o", " ", "d", "e", " ", "f", "e", "c", "h", "a", " ", "y", " ", "h", "o", "r", "a">>, <<"C", "r", "e", "a", "d", "o", " ", "(", "f", "e", "c", "h", "a", " ", "y", " ", "h", "o", "r", "a", ")">>>>,
       <<<<"s", "o", "c", "i", "o">>, <<"S", "o", "c", "i", "o">>>>,
       <<<<"i", "n", "c", "o", "m", "i", "n", "g", " ", "c", "u", "s", "t", "o", "m", "e", "r">>, <<"I", "n", "c", "o", "m", "i", "n", "g", " ", "C", "u", "s", "t", "o", "m", "e", "r">>>>,
       <<<<"i", "d", " ", "d", "e", " ", "c", "l", "i", "e", "n", "t", "e">>, <<"I", "D", " ", "C", "l", "i", "e", "n", "t", "e">>>>,
       <<<<"c", "a", "t", "e", "g", "o", "r", "i", "a", " ", "d", "e", "l", " ", "c", "i", "e", "r", "r", "e">>, <<"C", "a", "t", "e", "g", "o", "r", "i", "a", " ", "d", "e", "l", " ", "C", "i", "e", "r", "r", "e">>>>,
       <<<<"p", "r", "o", "m", "o", "c", "i", "o", "n">>, <<"P", "r", "o", "m", "o", "c", "i", "o", "n">>>>,
       <<<<"t", "a", "s", "k">>, <<"T", "a", "s", "k">>>> >>

\* alias, as the dict literal builds it: a later pair with the same key wins
alias ==
    [k \in {_norm_key(AliasPairs[i][1]) : i \in 1..Len(AliasPairs)} |->
        _norm_key(AliasPairs[SetMax({i \in 1..Len(AliasPairs) :
                                        _norm_key(AliasPairs[i][1]) = k})][2])]

\* alias.get(key, key)
alias_get(key) == IF key \in DOMAIN alias THEN alias[key] ELSE key

\* excluded_keys
excluded_keys(exclude_columns) ==
    {_norm_key(exclude_columns[i]) : i \in 1..Len(exclude_columns)} \ {<<>>}

\* tpl_headers_raw: the headers of the template that are not empty and not
\* excluded
tpl_headers_raw(ws_tpl, excluded) ==
    SelectSeq(_sheet_headers(ws_tpl),
              LAMBDA h : Len(h) > 0 /\ _norm_key(h) \notin excluded)

\* only the keys of the template, without those its aliases stand for
covered_template_only(tpl) ==
    {_norm_key(tpl[i]) : i \in 1..Len(tpl)} \ {<<>>}

\* covered_source_keys: the keys of the template and those its aliases stand for
covered_source_keys(tpl) ==
    ({_norm_key(tpl[i]) : i \in 1..Len(tpl)} \ {<<>>})
    \cup {alias_get(_norm_key(tpl[i])) : i \in {j \in 1..Len(tpl) : Len(_norm_key(tpl[j])) > 0}}

RECURSIVE extras_from(_, _, _, _, _)
\* the loop over src_headers_raw from position i, with seen_extra_keys
extras_from(src, i, excluded, covered, seen) ==
    IF i > Len(src) THEN <<>>
    ELSE IF \/ Len(src[i]) = 0
            \/ _norm_key(src[i]) \in excluded
            \/ Len(_norm_key(src[i])) = 0
            \/ _norm_key(src[i]) \in covered
            \/ _norm_key(src[i]) \in seen
         THEN extras_from(src, i + 1, excluded, covered, seen)
         ELSE <<src[i]>> \o extras_from(src, i + 1, excluded, covered,
                                          seen \cup {_norm_key(src[i])})

\* extras
reorder_extras(src, tpl, excluded, keep_extra_columns) ==
    IF keep_extra_columns
    THEN extras_from(src, 1, excluded, covered_source_keys(tpl), {})
    ELSE <<>>

\* out_headers
reorder_out_headers(src, tpl, excluded, keep_extra_columns) ==
    tpl \o reorder_extras(src, tpl, excluded, keep_extra_columns)

\* src_cols_for_out: the source column of each output column, 0 for None
src_cols_for_out(out, src_index) ==
    [i \in 1..Len(out) |-> GetCol(src_index, alias_get(_norm_key(out[i])))]

\* row_out for sheet row r
reorder_row(ws_src, cols, r) ==
    [i \in 1..Len(cols) |->
        IF cols[i] = 0 THEN PyStr(<<>>) ELSE Cell(ws_src, r, cols[i])]

\* the rows of ws_new: out_headers, then rows 2..max_row of the source
reorder_rows(ws_src, out, cols) ==
    << TextRow(out) >>
    \o [k \in 1..(max_row(ws_src) - 1) |-> reorder_row(ws_src, cols, k + 1)]

ordered_title == "Datos Completos (Ordenado)"

SheetIndex(wb, name) == CHOOSE i \in 1..Len(wb) : wb[i].name = name

\* seq with x put at position i
InsertAt(seq, i, x) ==
    SubSeq(seq, 1, i - 1) \o <<x>> \o SubSeq(seq, i, Len(seq))

\* the new sheet takes the name and the place of the source sheet
reorder_replace(wb, rows) ==
    InsertAt(RemoveSheet(wb, output_sheet), SheetIndex(wb, output_sheet),
             [name |-> output_sheet, rows |-> rows])

reorder_write(wb, ws_src, out, src_index) ==
    reorder_replace(RemoveSheet(wb, ordered_title),
                    reorder_rows(ws_src, out, src_cols_for_out(out, src_index)))

reorder_with(wb, ws_src, src, tpl, excluded, keep_extra_columns) ==
    reorder_write(wb, ws_src,
                  reorder_out_headers(src, tpl, excluded, keep_extra_columns),
                  _build_col_index(src))

\* reorder_datos_completos_by_template(excel_path, template_path,
\* keep_extra_columns, exclude_columns) with the default sheets: the workbook
\* saved, or the error raised before any write
reorder_datos_completos_by_template(disk, tpl_disk, keep_extra_columns, exclude_columns) ==
    IF disk = NoFile \/ tpl_disk = NoFile
    THEN [raised |-> TRUE, kind |-> "FileNotFoundError", wb |-> disk]
    ELSE IF output_sheet \notin sheetnames(disk)
    THEN [raised |-> TRUE, kind |-> "KeyError", wb |-> disk]
    ELSE IF Len(tpl_headers_raw(tpl_disk[1].rows, {})) = 0
    THEN [raised |-> TRUE, kind |-> "ValueError", wb |-> disk]
    ELSE [raised |-> FALSE, kind |-> "none",
          wb |-> reorder_with(disk, SheetRows(disk, output_sheet),
                              _sheet_headers(SheetRows(disk, output_sheet)),
                              tpl_headers_raw(tpl_disk[1].rows,
                                              excluded_keys(exclude_columns)),
                              excluded_keys(exclude_columns),
                              keep_extra_columns)]

(***************************************************************************)
(* The workbooks and templates the reorder is run on                       *)
(***************************************************************************)
TemplateRows ==
    { <<<<"I", "D">>, <<"T", "e", "m", "a">>, <<"f", "e", "c", "h", "a", " ", "y", " ", "h", "o", "r", "a", " ", "d", "e", " ", "a", "c", "t", "u", "a", "l", "i", "z", "a", "c", "i", "ó", "n">>>>,
      <<<<"I", "d", " ", "d", "e", " ", "C", "l", "i", "e", "n", "t", "e">>, <<>>, <<"S", "o", "c", "i", "o">>, <<"R", "e", "s", "i", "d", "e", "n", "c", "i", "a", " ", "/", " ", "U", "r", "b", "a", "n", "i", "z", "a", "c", "i", "ó", "n">>, <<" ">>>>,
      <<<<"T", "e", "m", "a">>, <<"I", "D">>, <<"T", "e", "m", "a">>, <<"N", "u", "e", "v", "o">>>>,
      <<<<>>, <<" ">>>> }

SourceRows ==
    { <<<<"I", "D">>, <<"T", "e", "m", "a">>, <<"A", "c", "t", "u", "a", "l", "i", "z", "a", "d", "o", " ", "(", "f", "e", "c", "h", "a", " ", "y", " ", "h", "o", "r", "a", ")">>, <<"S", "o", "c", "i", "o">>, <<"R", "e", "s", "i", "d", "e", "n", "c", "i", "a", "/", "U", "r", "b", "a", "n", "i", "z", "a", "c", "i", "ó", "n">>, <<"N", "o", "t", "e">>>>,
      <<<<"N", "o", "t", "e">>, <<"I", "D">>, <<" ", "N", "O", "T", "E", " ">>, <<"d", "e">>, <<"I", "D", " ", "C", "l", "i", "e", "n", "t", "e">>, <<>>, <<"E", "s", "t", "a", "d", "o">>>>,
      <<<<"T", "e", "m", "a">>, <<"I", "D">>>> }

\* a sheet with the header texts and two rows of cells numbered by column
SheetOf(name, headers) ==
    [name |-> name,
     rows |-> << [c \in 1..Len(headers) |->
                     IF Len(headers[c]) = 0 THEN PyNone ELSE PyStr(headers[c])],
                 [c \in 1..Len(headers) |-> PyInt(10 + c)],
                 [c \in 1..Len(headers) |-> PyInt(20 + c)] >>]

ReorderDisks ==
    { <<SheetOf(output_sheet, h)>> : h \in SourceRows }
    \cup { <<OtherSheet, SheetOf(output_sheet, h), SheetOf(ordered_title, h)>> : h \in SourceRows }
    \cup { <<SheetOf(ordered_title, h), SheetOf(output_sheet, h), OtherSheet>> : h \in SourceRows }
    \cup { NoFile, <<OtherSheet>> }

ReorderTemplates ==
    { <<SheetOf("Plantilla", h)>> : h \in TemplateRows } \cup {NoFile}

ExcludeLists == { <<>>, <<<<"R", "e", "s", "i", "d", "e", "n", "c", "i", "a", "/", "U", "r", "b", "a", "n", "i", "z", "a", "c", "i", "ó", "n">>>>, <<<<"t", "e", "m", "a">>, <<"-", "-">>>> }

ReorderInit ==
    /\ r_disk \in ReorderDisks
    /\ r_tpl \in ReorderTemplates
    /\ r_keep \in BOOLEAN
    /\ r_excl \in ExcludeLists
    /\ r_log = <<>>

ReorderIdle ==
    /\ r_disk = NoFile
    /\ r_tpl = NoFile
    /\ r_keep = TRUE
    /\ r_excl = <<>>
    /\ r_log = <<>>

\* App._on_reorder's job: reorder_datos_completos_by_template on the workbook
\* file
Reorder ==
    /\ Len(r_log) < MaxReorderRuns
    /\ \E res \in {reorder_datos_completos_by_template(r_disk, r_tpl, r_keep, r_excl)} :
           /\ r_disk' = res.wb
           /\ r_log' = Append(r_log, [raised |-> res.raised, kind |-> res.kind,
                                      before |-> r_disk, after |-> res.wb])
    /\ UNCHANGED <<r_tpl, r_keep, r_excl>>


(***************************************************************************)
(* The session's methods called directly: request_extract with any mode,   *)
(* shutdown, and the event loop that serves the calls. The calls accepted  *)
(* are recorded next to the session's own state.                           *)
(***************************************************************************)
MaxCalls == 2

\* the modes passed: in capitals, and none
ApiModes == {"MANUAL", NoMode}

NoCalls == [k \in TableKeys |-> <<>>]

NotServed == [k |-> "none", calls |-> <<>>]

ApiIdle ==
    /\ g_calls = NoCalls
    /\ g_served = NotServed

\* a new session
ApiOpen ==
    /\ OnOpen
    /\ g_calls' = NoCalls
    /\ g_served' = NotServed

\* request_extract(table_key, mode) from the thread of the caller
ApiRequestExtract ==
    \E k \in TableKeys, mode \in ApiModes :
        /\ _session
        /\ Len(g_calls[k]) < MaxCalls
        /\ request_extract(k, mode)
        /\ g_calls' = IF _page_ready THEN [g_calls EXCEPT ![k] = Append(@, mode)]
                      ELSE g_calls
        /\ UNCHANGED <<_session, loop_pc, sessGhost, app_threads, app_closed,
                       fileVars, g_served>>

\* shutdown() from the thread of the caller
ApiShutdown ==
    /\ _session
    /\ ~_shutdown_event
    /\ shutdown
    /\ UNCHANGED <<_session, loop_pc, sessGhost, app_threads, app_closed, reply,
                   fileVars, pending_busy, apiVars>>

\* the loop's check of a table's signal: the extraction it starts stands for
\* the calls accepted since the signal was last cleared
ApiCheckExtract ==
    /\ CheckExtract
    /\ IF loop_pc'.job = "none" THEN UNCHANGED apiVars
       ELSE /\ g_served' = [k |-> loop_pc'.job, calls |-> g_calls[loop_pc'.job]]
            /\ g_calls' = [g_calls EXCEPT ![loop_pc'.job] = <<>>]

\* the steps of the session's thread that look at no table's signal
ApiThreadStep ==
    \/ RunReady
    \/ LoopTop
    \/ CheckEnrich
    \/ CheckCollect
    \/ LoopWait
    \/ JobEntry
    \/ ApplyClicked
    \/ ApplyTimeout
    \/ JobReturn

ApiFrame == UNCHANGED <<keyVars, mergeVars, collectVars, extractVars, reorderVars, headerVars, stepVars, raceVars, resumeVars>>

ApiNext ==
    \/ ApiOpen /\ ApiFrame
    \/ ApiRequestExtract /\ ApiFrame
    \/ ApiShutdown /\ ApiFrame
    \/ ApiCheckExtract /\ ApiFrame
    \/ ApiThreadStep /\ UNCHANGED apiVars /\ ApiFrame

(***************************************************************************)
(* The header index of a sheet: excel_merge._get_sheet_columns and         *)
(* excel_reorder._build_col_index on row 1 of the same sheet.              *)
(***************************************************************************)
MaxCols == 3

\* one name written two ways, and another written two ways
SocioForms == { <<"S", "o", "c", "i", "o">>, <<" ", "S", "Ó", "C", "I", "O", " ">> }

ClienteForms ==
    { <<"I", "D", " ", "C", "l", "i", "e", "n", "t", "e">>,
      <<"i", "d", " ", " ", "c", "l", "i", "e", "n", "t", "e">> }

HeaderCells == {PyStr(t) : t \in SocioForms \cup ClienteForms} \cup {PyNone}

\* a sheet with the cells in row 1 and the numbers 11, 12, ... in row 2
HeaderSheets ==
    { << row1, [c \in 1..Len(row1) |-> PyInt(10 + c)] >> :
        row1 \in UNION {[1..n -> HeaderCells] : n \in 1..MaxCols} }

HeaderInit ==
    /\ h_ws \in HeaderSheets
    /\ h_cols = <<>>
    /\ h_index = <<>>
    /\ h_done = FALSE

HeaderIdle ==
    /\ h_ws = <<>>
    /\ h_cols = <<>>
    /\ h_index = <<>>
    /\ h_done = FALSE

\* merge_tickets_customers and reorder_datos_completos_by_template build
\* their index of the sheet's row 1
BuildHeaderIndex ==
    /\ ~h_done
    /\ h_cols' = _get_sheet_columns(h_ws)
    /\ h_index' = _build_col_index(_sheet_headers(h_ws))
    /\ h_done' = TRUE
    /\ UNCHANGED h_ws

(***************************************************************************)
(* One navigation step: SplynxSession._run_step and the loops over the     *)
(* selector candidates (_click_any, _fill_any, _press_any,                 *)
(* _wait_enabled_any, _wait_nonempty_any).                                 *)
(***************************************************************************)
MaxCands == 3

\* a step that is a string is a click; a dict names its action
StepActions == {"str", "click", "fill", "press", "wait_enabled", "wait_nonempty"}

RECURSIVE try_any(_, _, _, _)
\* the loop 'for sel in selectors' from candidate i on, in document doc: the
\* first candidate that succeeds returns; after the last one, the last
\* exception is raised if there was one
try_any(doc, ok, n, i) ==
    IF i > n THEN [raised |-> n > 0, tried |-> <<>>]
    ELSE IF i \in ok THEN [raised |-> FALSE, tried |-> << <<doc, i>> >>]
    ELSE [raised |-> try_any(doc, ok, n, i + 1).raised,
          tried |-> << <<doc, i>> >> \o try_any(doc, ok, n, i + 1).tried]

\* _click_any(scope, candidates) and the four loops of the same form
_click_any(doc, ok, n) == try_any(doc, ok, n, 1)

\* 'except Exception' of _run_step after the pass in the scope: the pass in
\* the root document when the scope is not the page, else the exception
after_failed_pass(scope, first, okr, n) ==
    IF scope # "page"
    THEN [raised |-> _click_any("page", okr, n).raised,
          tried |-> first.tried \o _click_any("page", okr, n).tried]
    ELSE first

\* the mutant of _run_step: the exception of the first pass is raised
_run_step_one_pass(action, scope, n, okf, okr) ==
    _click_any(scope, IF scope = "frame" THEN okf ELSE okr, n)

\* _run_step(page, scope, step) for a step with n candidates
_run_step(action, scope, n, okf, okr) ==
    IF action = "str" /\ n = 0
    THEN [raised |-> FALSE, tried |-> <<>>]
    ELSE IF _click_any(scope, IF scope = "frame" THEN okf ELSE okr, n).raised
    THEN after_failed_pass(scope,
                           _click_any(scope, IF scope = "frame" THEN okf ELSE okr, n),
                           okr, n)
    ELSE _click_any(scope, IF scope = "frame" THEN okf ELSE okr, n)

StepInit ==
    /\ s_action \in StepActions
    /\ s_scope \in {"frame", "page"}
    /\ s_n \in 0..MaxCands
    /\ s_okf \in SUBSET (1..s_n)
    /\ s_okr \in SUBSET (1..s_n)
    /\ s_tried = <<>>
    /\ s_result = "none"

StepIdle ==
    /\ s_action = "str"
    /\ s_scope = "page"
    /\ s_n = 0
    /\ s_okf = {}
    /\ s_okr = {}
    /\ s_tried = <<>>
    /\ s_result = "none"

\* SplynxSession._run_step on the step
RunStep ==
    /\ s_result = "none"
    /\ \E res \in {_run_step(s_action, s_scope, s_n, s_okf, s_okr)} :
           /\ s_tried' = res.tried
           /\ s_result' = IF res.raised THEN "raised" ELSE "returned"
    /\ UNCHANGED <<s_action, s_scope, s_n, s_okf, s_okr>>

(***************************************************************************)
(* The date collection and merge_tickets_customers on the same workbook:   *)
(* between two runs of the collection a merge may remove 'Datos Completos' *)
(* and create it again from the tickets.  The checkpoint file is written   *)
(* and read by the collection only.                                        *)
(***************************************************************************)
MaxMerges == 1

\* 'Datos Completos' as merge_tickets_customers writes it: the columns of the
\* tickets and of the customers, no date column
MergedSheets ==
    { [exists |-> TRUE, hdr |-> FALSE,
       rows |-> [r \in 1..Len(ids) |->
                    [id |-> ids[r], esc |-> PyNone, res |-> PyNone, cie |-> PyNone]]]
        : ids \in UNION {[1..m -> {k.id : k \in RowKinds}] : m \in 0..MaxRows} }

ResumeInit ==
    /\ c_disk \in MergedSheets
    /\ c_bak = NoSheet
    /\ c_ckpt = NoCheckpoint
    /\ c_wb = NoSheet
    /\ c_pc = "idle"
    /\ c_i = 0
    /\ c_start = 0
    /\ c_cnt = NoCounters
    /\ c_attempt = 0
    /\ c_runs = 0
    /\ c_kills = 0
    /\ c_looked = {}
    /\ c_collected = {}
    /\ v_handled = {}
    /\ v_merges = 0

ResumeIdle ==
    /\ v_handled = {}
    /\ v_merges = 0

\* a step of the collection: the rows it has looked up are remembered
Handled ==
    /\ v_handled' = v_handled \cup c_looked'
    /\ UNCHANGED v_merges

\* merge_tickets_customers between two runs (App._on_merge, or the merge at
\* the end of _do_enrich_missing): the sheet is removed and created again;
\* the checkpoint file is not touched
MergeRecreatesSheet ==
    /\ ~CollectRunning
    /\ v_merges < MaxMerges
    /\ v_merges' = v_merges + 1
    /\ c_disk' \in MergedSheets
    /\ v_handled' = {}
    /\ UNCHANGED <<c_bak, c_ckpt, c_wb, c_pc, c_i, c_start, c_cnt, c_attempt,
                   c_runs, c_kills, c_looked, c_collected>>

ResumeFrame ==
    UNCHANGED <<keyVars, mergeVars, sessVars, extractVars, reorderVars,
                apiVars, headerVars, stepVars, raceVars>>

ResumeNext ==
    \/ CollectStart /\ Handled /\ ResumeFrame
    \/ CollectRow /\ Handled /\ ResumeFrame
    \/ CollectLookup /\ Handled /\ ResumeFrame
    \/ CollectRecover /\ Handled /\ ResumeFrame
    \/ CollectCheckpoint /\ Handled /\ ResumeFrame
    \/ CollectSavePeriodic /\ Handled /\ ResumeFrame
    \/ CollectFinalSave /\ Handled /\ ResumeFrame
    \/ CollectMarkDone /\ Handled /\ ResumeFrame
    \/ CollectKill /\ Handled /\ ResumeFrame
    \/ MergeRecreatesSheet /\ ResumeFrame

(***************************************************************************)
(* request_collect_dates_from_excel called from another thread while the   *)
(* session's thread is in _event_loop: each read and each write of the     *)
(* fields the two share is a step.                                         *)
(***************************************************************************)
MaxRequests == 3

\* the fields and variables that these steps leave alone
raceRest ==
    <<_extract_events, _extract_modes, _shutdown_event, _enrich_event,
      _enrich_excel_path, _enrich_running, _page_ready, _session, loop_pc,
      app_threads, app_closed, reply, holders, executing, pending_busy,
      job_from_busy>>

\* the session's thread is in _event_loop with the page ready, and no call
\* has been made
RaceInit ==
    /\ _extract_events = [k \in TableKeys |-> FALSE]
    /\ _extract_modes = [k \in TableKeys |-> "auto"]
    /\ _shutdown_event = FALSE
    /\ _enrich_event = FALSE
    /\ _enrich_excel_path = NoPath
    /\ _enrich_running = FALSE
    /\ _collect_dates_event = FALSE
    /\ _collect_ticket_id = NoTicket
    /\ _collect_dates_excel_path = NoPath
    /\ _collect_dates_running = FALSE
    /\ _page_ready = TRUE
    /\ _session = TRUE
    /\ loop_pc = At("collect")
    /\ executing = {}
    /\ app_threads = [w \in Workers \cup {"enrich"} |-> "dead"]
    /\ app_closed = FALSE
    /\ reply = "none"
    /\ holders = {}
    /\ pending_busy = {}
    /\ job_from_busy = FALSE
    /\ q_pc = "idle"
    /\ q_calls = 0
    /\ q_accepted = 0
    /\ l_pc = "test"
    /\ l_excel_path = NoPath
    /\ l_tid = NoTicket
    /\ l_runs = <<>>

RaceIdle ==
    /\ q_pc = "idle"
    /\ q_calls = 0
    /\ q_accepted = 0
    /\ l_pc = "none"
    /\ l_excel_path = NoPath
    /\ l_tid = NoTicket
    /\ l_runs = <<>>

\* request_collect_dates_from_excel(excel_path=ExcelPath) up to its last
\* test: the page is ready and the file exists, so the call goes on to its
\* writes unless a collection is running
CallTests ==
    /\ q_pc = "idle"
    /\ q_calls < MaxRequests
    /\ q_calls' = q_calls + 1
    /\ IF _page_ready /\ ~_collect_dates_running
       THEN q_pc' = "set_tid" /\ q_accepted' = q_accepted + 1
       ELSE q_pc' = "idle" /\ UNCHANGED q_accepted
    /\ UNCHANGED <<_collect_dates_event, _collect_ticket_id,
                   _collect_dates_excel_path, _collect_dates_running,
                   l_pc, l_excel_path, l_tid, l_runs, raceRest>>

\* self._collect_ticket_id = None
CallSetTid ==
    /\ q_pc = "set_tid"
    /\ _collect_ticket_id' = NoTicket
    /\ q_pc' = "set_path"
    /\ UNCHANGED <<_collect_dates_event, _collect_dates_excel_path,
                   _collect_dates_running, q_calls, q_accepted,
                   l_pc, l_excel_path, l_tid, l_runs, raceRest>>

\* self._collect_dates_excel_path = path
CallSetPath ==
    /\ q_pc = "set_path"
    /\ _collect_dates_excel_path' = ExcelPath
    /\ q_pc' = "set_event"
    /\ UNCHANGED <<_collect_dates_event, _collect_ticket_id,
                   _collect_dates_running, q_calls, q_accepted,
                   l_pc, l_excel_path, l_tid, l_runs, raceRest>>

\* self._collect_dates_event.set()
CallSetEvent ==
    /\ q_pc = "set_event"
    /\ _collect_dates_event' = TRUE
    /\ q_pc' = "idle"
    /\ UNCHANGED <<_collect_ticket_id, _collect_dates_excel_path,
                   _collect_dates_running, q_calls, q_accepted,
                   l_pc, l_excel_path, l_tid, l_runs, raceRest>>

\* the fields and variables a step of the loop's collect branch leaves alone
loopKeeps == <<_collect_dates_running, q_pc, q_calls, q_accepted, l_runs, raceRest>>

\* if self._collect_dates_event.is_set():
LoopTestEvent ==
    /\ l_pc = "test"
    /\ l_pc' = IF _collect_dates_event THEN "clear" ELSE "wait"
    /\ UNCHANGED <<_collect_dates_event, _collect_ticket_id,
                   _collect_dates_excel_path, l_excel_path, l_tid, loopKeeps>>

\* self._collect_dates_event.clear()
LoopClearEvent ==
    /\ l_pc = "clear"
    /\ _collect_dates_event' = FALSE
    /\ l_pc' = "read_path"
    /\ UNCHANGED <<_collect_ticket_id, _collect_dates_excel_path,
                   l_excel_path, l_tid, loopKeeps>>

\* excel_path = self._collect_dates_excel_path
LoopReadPath ==
    /\ l_pc = "read_path"
    /\ l_excel_path' = _collect_dates_excel_path
    /\ l_pc' = "read_tid"
    /\ UNCHANGED <<_collect_dates_event, _collect_ticket_id,
                   _collect_dates_excel_path, l_tid, loopKeeps>>

\* tid = self._collect_ticket_id
LoopReadTid ==
    /\ l_pc = "read_tid"
    /\ l_tid' = _collect_ticket_id
    /\ l_pc' = "reset_path"
    /\ UNCHANGED <<_collect_dates_event, _collect_ticket_id,
                   _collect_dates_excel_path, l_excel_path, loopKeeps>>

\* self._collect_dates_excel_path = None
LoopResetPath ==
    /\ l_pc = "reset_path"
    /\ _collect_dates_excel_path' = NoPath
    /\ l_pc' = "reset_tid"
    /\ UNCHANGED <<_collect_dates_event, _collect_ticket_id,
                   l_excel_path, l_tid, loopKeeps>>

\* self._collect_ticket_id = None
LoopResetTid ==
    /\ l_pc = "reset_tid"
    /\ _collect_ticket_id' = NoTicket
    /\ l_pc' = "call"
    /\ UNCHANGED <<_collect_dates_event, _collect_dates_excel_path,
                   l_excel_path, l_tid, loopKeeps>>

\* if excel_path: self._do_collect_dates_from_excel(page, excel_path=...)
\* else: self._do_collect_dates_nav(page, ticket_id=str(tid or "")), which
\* returns to the loop
LoopCallJob ==
    /\ l_pc = "call"
    /\ IF l_excel_path # NoPath
       THEN /\ l_runs' = Append(l_runs, [job |-> "collect_excel", arg |-> l_excel_path])
            /\ l_pc' = "job"
       ELSE /\ l_runs' = Append(l_runs, [job |-> "collect_nav", arg |-> l_tid])
            /\ l_pc' = "wait"
    /\ UNCHANGED <<_collect_dates_event, _collect_ticket_id,
                   _collect_dates_excel_path, _collect_dates_running,
                   l_excel_path, l_tid, q_pc, q_calls, q_accepted, raceRest>>

\* _do_collect_dates_from_excel: self._collect_dates_running = True
RaceJobStart ==
    /\ l_pc = "job"
    /\ ~_collect_dates_running
    /\ _collect_dates_running' = TRUE
    /\ UNCHANGED <<_collect_dates_event, _collect_ticket_id,
                   _collect_dates_excel_path, l_pc, l_excel_path, l_tid,
                   q_pc, q_calls, q_accepted, l_runs, raceRest>>

\* _do_collect_dates_from_excel: finally self._collect_dates_running = False
RaceJobEnd ==
    /\ l_pc = "job"
    /\ _collect_dates_running
    /\ _collect_dates_running' = FALSE
    /\ l_pc' = "wait"
    /\ UNCHANGED <<_collect_dates_event, _collect_ticket_id,
                   _collect_dates_excel_path, l_excel_path, l_tid,
                   q_pc, q_calls, q_accepted, l_runs, raceRest>>

\* page.wait_for_timeout(250), and the tests of the loop up to the collect
\* branch, whose signals are not set
LoopAround ==
    /\ l_pc = "wait"
    /\ l_pc' = "test"
    /\ UNCHANGED <<_collect_dates_event, _collect_ticket_id,
                   _collect_dates_excel_path, l_excel_path, l_tid, loopKeeps>>

RaceFrame ==
    UNCHANGED <<keyVars, mergeVars, collectVars, extractVars, reorderVars,
                apiVars, headerVars, stepVars, resumeVars>>

RaceNext ==
    \/ CallTests /\ RaceFrame
    \/ CallSetTid /\ RaceFrame
    \/ CallSetPath /\ RaceFrame
    \/ CallSetEvent /\ RaceFrame
    \/ LoopTestEvent /\ RaceFrame
    \/ LoopClearEvent /\ RaceFrame
    \/ LoopReadPath /\ RaceFrame
    \/ LoopReadTid /\ RaceFrame
    \/ LoopResetPath /\ RaceFrame
    \/ LoopResetTid /\ RaceFrame
    \/ LoopCallJob /\ RaceFrame
    \/ RaceJobStart /\ RaceFrame
    \/ RaceJobEnd /\ RaceFrame
    \/ LoopAround /\ RaceFrame

(***************************************************************************)
(* Specifications                                                          *)
(***************************************************************************)
\* the date collection, killed and run again, with a merge in between
InitResume ==
    ResumeInit /\ KeyIdle /\ MergeIdle /\ SessInit /\ ExtractIdle /\ ReorderIdle
    /\ ApiIdle /\ HeaderIdle /\ StepIdle /\ RaceIdle

SpecResume == InitResume /\ [][ResumeNext]_vars

\* calls of request_collect_dates_from_excel interleaved with the loop
InitRace ==
    RaceInit /\ KeyIdle /\ MergeIdle /\ CollectIdle /\ ExtractIdle
    /\ ReorderIdle /\ ApiIdle /\ HeaderIdle /\ StepIdle /\ ResumeIdle

SpecRace == InitRace /\ [][RaceNext]_vars

\* one step on every outcome of its candidates
InitStep ==
    StepInit /\ KeyIdle /\ MergeIdle /\ SessInit /\ CollectIdle /\ ExtractIdle
    /\ ReorderIdle /\ ApiIdle /\ HeaderIdle /\ RaceIdle /\ ResumeIdle

NextStep ==
    RunStep
    /\ UNCHANGED <<keyVars, mergeVars, sessVars, collectVars, extractVars,
                   reorderVars, apiVars, headerVars, raceVars, resumeVars>>

SpecStep == InitStep /\ [][NextStep]_vars

\* the header index on every sheet of HeaderSheets
InitHeader ==
    HeaderInit /\ KeyIdle /\ MergeIdle /\ SessInit /\ CollectIdle /\ ExtractIdle
    /\ ReorderIdle /\ ApiIdle /\ StepIdle /\ RaceIdle /\ ResumeIdle

NextHeader ==
    BuildHeaderIndex
    /\ UNCHANGED <<keyVars, mergeVars, sessVars, collectVars, extractVars,
                   reorderVars, apiVars, stepVars, raceVars, resumeVars>>

SpecHeader == InitHeader /\ [][NextHeader]_vars

\* the ID key on every input of IdInputs
InitIdKey == KeyInit /\ MergeIdle /\ SessInit /\ CollectIdle /\ ExtractIdle /\ ReorderIdle /\ ApiIdle /\ HeaderIdle /\ StepIdle /\ RaceIdle /\ ResumeIdle

NextIdKey == ComputeKey /\ UNCHANGED <<mergeVars, sessVars, collectVars, extractVars, reorderVars, apiVars, headerVars, stepVars, raceVars, resumeVars>>

SpecIdKey == InitIdKey /\ [][NextIdKey]_vars

\* the merge run on every workbook of MergeInputs
InitMerge == MergeInit /\ KeyIdle /\ SessInit /\ CollectIdle /\ ExtractIdle /\ ReorderIdle /\ ApiIdle /\ HeaderIdle /\ StepIdle /\ RaceIdle /\ ResumeIdle

NextMerge == Merge /\ UNCHANGED <<keyVars, sessVars, collectVars, extractVars, reorderVars, apiVars, headerVars, stepVars, raceVars, resumeVars>>

SpecMerge == InitMerge /\ [][NextMerge]_vars

\* the session, the requests made to it and its thread
Init == SessInit /\ KeyIdle /\ MergeIdle /\ CollectIdle /\ ExtractIdle /\ ReorderIdle /\ ApiIdle /\ HeaderIdle /\ StepIdle /\ RaceIdle /\ ResumeIdle

Spec == Init /\ [][SessNext]_vars

\* the same with the merge and reorder threads of the application
SpecApp == Init /\ [][AppNext]_vars

\* the session's methods called with any mode
SpecApi == Init /\ [][ApiNext]_vars

\* the date collection on every sheet of CollectSheets, killed and run again
InitCollect == CollectInit /\ KeyIdle /\ MergeIdle /\ SessInit /\ ExtractIdle /\ ReorderIdle /\ ApiIdle /\ HeaderIdle /\ StepIdle /\ RaceIdle /\ ResumeIdle

CollectFrame == UNCHANGED <<keyVars, mergeVars, sessVars, extractVars, reorderVars, apiVars, headerVars, stepVars, raceVars, resumeVars>>

NextCollect ==
    \/ CollectStart /\ CollectFrame
    \/ CollectRow /\ CollectFrame
    \/ CollectLookup /\ CollectFrame
    \/ CollectRecover /\ CollectFrame
    \/ CollectCheckpoint /\ CollectFrame
    \/ CollectSavePeriodic /\ CollectFrame
    \/ CollectFinalSave /\ CollectFrame
    \/ CollectMarkDone /\ CollectFrame
    \/ CollectKill /\ CollectFrame

SpecCollect == InitCollect /\ [][NextCollect]_vars

\* the tickets extraction on every table of PortalTables and file of ExtractDisks
InitExtract == ExtractInit /\ KeyIdle /\ MergeIdle /\ SessInit /\ CollectIdle /\ ReorderIdle /\ ApiIdle /\ HeaderIdle /\ StepIdle /\ RaceIdle /\ ResumeIdle

NextExtract ==
    ExtractTickets /\ UNCHANGED <<keyVars, mergeVars, sessVars, collectVars, reorderVars, apiVars, headerVars, stepVars, raceVars, resumeVars>>

SpecExtract == InitExtract /\ [][NextExtract]_vars

\* the reorder on every workbook of ReorderDisks and template of ReorderTemplates
InitReorder ==
    ReorderInit /\ KeyIdle /\ MergeIdle /\ SessInit /\ CollectIdle /\ ExtractIdle /\ ApiIdle /\ HeaderIdle /\ StepIdle /\ RaceIdle /\ ResumeIdle

NextReorder ==
    Reorder /\ UNCHANGED <<keyVars, mergeVars, sessVars, collectVars, extractVars, apiVars, headerVars, stepVars, raceVars, resumeVars>>

SpecReorder == InitReorder /\ [][NextReorder]_vars

(***************************************************************************)
(* Claims: the ID key                                                      *)
(***************************************************************************)
ExampleKey == <<"1", "3", "5", "9", "2", "1">>

\* C8: every representation of a record ID n (the integer, the float n.0, a
\* scientific notation, a letter followed by n, the digits padded with
\* spaces and leading zeros) gives the decimal digits of n, in both
\* implementations of the key; None, booleans and the empty text give the
\* empty key.
C8_IdKeyCanonical ==
    kv_out # Unset =>
        /\ kv_form \in IdForms =>
              /\ kv_out = NatStr(kv_n)
              /\ kv_out2 = NatStr(kv_n)
              /\ kv_n = ExampleId => kv_out = ExampleKey
        /\ kv_form \in EmptyForms => kv_out = <<>> /\ kv_out2 = <<>>

\* the key of '1.35921E+05' has been computed
C8_Witness ==
    /\ kv_in = PyStr(<<"1", ".", "3", "5", "9", "2", "1", "E", "+", "0", "5">>)
    /\ kv_out = ExampleKey
    /\ kv_out2 = ExampleKey

(***************************************************************************)
(* Claims: the merge.  In the workbooks of MergeInputs the tickets are     *)
(* numbered 1, 2, ... in their ID column, so a ticket is recognised in an  *)
(* output sheet by the first cell of its row.                              *)
(***************************************************************************)
\* the column of ws whose header is name up to case, accents and spaces, or 0
ColOf(ws, name) ==
    LET cs == {c \in 1..max_column(ws) : HeaderKeyAt(ws, c) = _norm_header(name)}
    IN  IF cs = {} THEN 0 ELSE CHOOSE c \in cs : TRUE

\* the data rows of an output sheet after a run
DataRows(e, name) == Tail(SheetRows(e.outs, name))

\* how many rows of the sheet belong to ticket r
RowsOfTicket(e, name, r) ==
    Cardinality({j \in 1..Len(DataRows(e, name)) : DataRows(e, name)[j][1] = PyInt(r)})

TicketsWs == SheetRows(m_disk, tickets_sheet)

CustomersWs == SheetRows(m_disk, customers_sheet)

\* C1: tickets_total is the number of ticket rows below the header,
\* joined + not_found = tickets_total, and every ticket row is in exactly
\* one of 'Datos Completos' and 'Datos no Encontrados'.
C1_MergeTotals ==
    \A i \in 1..Len(m_log) :
        ~m_log[i].raised =>
            LET e == m_log[i]
            IN  /\ e.ret[1] = Len(TicketsWs) - 1
                /\ e.ret[2] + e.ret[3] = e.ret[1]
                /\ e.ret[2] = Len(DataRows(e, output_sheet))
                /\ e.ret[3] = Len(DataRows(e, not_found_sheet))
                /\ \A r \in 1..(Len(TicketsWs) - 1) :
                      RowsOfTicket(e, output_sheet, r)
                        + RowsOfTicket(e, not_found_sheet, r) = 1

\* a merge has joined a ticket and left another one unmatched
C1_Witness ==
    \E i \in 1..Len(m_log) :
        ~m_log[i].raised /\ m_log[i].ret[2] >= 1 /\ m_log[i].ret[3] >= 1

\* the key the priority of the claim gives ticket r
ClaimedKey(r) ==
    LET rid == IF ColOf(TicketsWs, H_ReporterID) > 0
               THEN _id_key(Cell(TicketsWs, r + 1, ColOf(TicketsWs, H_ReporterID)))
               ELSE <<>>
        cid == IF ColOf(TicketsWs, H_IDCliente) > 0
               THEN _id_key(Cell(TicketsWs, r + 1, ColOf(TicketsWs, H_IDCliente)))
               ELSE <<>>
        isCustomer ==
            /\ ColOf(TicketsWs, H_ReporterType) > 0
            /\ _norm_type(Cell(TicketsWs, r + 1, ColOf(TicketsWs, H_ReporterType)))
                 = CustomerText
    IN  IF isCustomer /\ rid # <<>> THEN rid
        ELSE IF cid # <<>> THEN cid
        ELSE IF rid # <<>> THEN rid
        ELSE <<>>

\* the partners of the customers whose canonical ID is key
PartnersOf(key) ==
    { PyStr(StrOrEmpty(Cell(CustomersWs, c, ColOf(CustomersWs, H_Socio))))
        : c \in {c \in 2..Len(CustomersWs) :
                    _id_key(Cell(CustomersWs, c, ColOf(CustomersWs, H_ID))) = key} }

SocioOut == Len(ticket_out_cols) + 2

\* C2: the join key of a ticket is its Reporter ID when the reporter type
\* is 'customer' and the Reporter ID is not empty, else its ID Cliente when
\* not empty, else its Reporter ID when not empty, else none; the ticket is
\* joined to a customer whose canonical ID is that key, and is unmatched
\* when there is no key or no such customer.
C2_JoinPriority ==
    \A i \in 1..Len(m_log) :
        ~m_log[i].raised =>
            \A r \in 1..(Len(TicketsWs) - 1) :
                LET e == m_log[i]
                    key == ClaimedKey(r)
                    dc == DataRows(e, output_sheet)
                IN  IF key # <<>> /\ PartnersOf(key) # {}
                    THEN \E j \in 1..Len(dc) :
                            dc[j][1] = PyInt(r) /\ dc[j][SocioOut] \in PartnersOf(key)
                    ELSE RowsOfTicket(e, not_found_sheet, r) = 1

\* the tickets of the examples (customer, 55, R99; admin, -, 99) have been
\* merged with customers 55 (partner A) and 99 (partner B)
C2_Witness ==
    /\ Len(m_log) >= 1
    /\ ~m_log[1].raised
    /\ TicketsWs = MkTickets(FullTH, FALSE, RefTickets)
    /\ CustomersWs = MkCustomers(FullCH, FALSE, RefCustomers)
    /\ \E j \in 1..2 :
          /\ DataRows(m_log[1], output_sheet)[j][1] = PyInt(1)
          /\ DataRows(m_log[1], output_sheet)[j][SocioOut] = PyStr(<<"A">>)
    /\ \E j \in 1..2 :
          /\ DataRows(m_log[1], output_sheet)[j][1] = PyInt(2)
          /\ DataRows(m_log[1], output_sheet)[j][SocioOut] = PyStr(<<"B">>)

OutputNames == {output_sheet, not_found_sheet, summary_sheet}

\* C9: a second merge of unchanged tickets and customers returns the counts
\* of the first and leaves the three output sheets with the same rows.
C9_MergeIdempotent ==
    \A i \in 2..Len(m_log) :
        ~m_log[i - 1].raised =>
            /\ ~m_log[i].raised
            /\ m_log[i].ret = m_log[i - 1].ret
            /\ \A name \in OutputNames :
                  SheetRows(m_log[i].outs, name) = SheetRows(m_log[i - 1].outs, name)

\* two merges in a row, with joined and unmatched tickets
C9_Witness ==
    /\ Len(m_log) >= 2
    /\ ~m_log[2].raised
    /\ m_log[2].ret[2] >= 1
    /\ m_log[2].ret[3] >= 1
    /\ Len(SheetRows(m_log[2].outs, summary_sheet)) > 5

\* the mandatory columns the workbook lacks, in the order the merge checks them
MissingMandatory ==
    (IF ColOf(TicketsWs, H_ID) = 0 THEN <<H_ID>> ELSE <<>>)
    \o (IF ColOf(CustomersWs, H_ID) = 0 THEN <<H_ID>> ELSE <<>>)
    \o (IF ColOf(CustomersWs, H_Socio) = 0 THEN <<H_Socio>> ELSE <<>>)
    \o (IF ColOf(CustomersWs, H_Residencia) = 0 THEN <<H_Residencia>> ELSE <<>>)

HasBothSheets ==
    m_disk # NoFile /\ {tickets_sheet, customers_sheet} \subseteq sheetnames(m_disk)

\* the tickets sheet has a column to compare by
HasJoinColumn ==
    ColOf(TicketsWs, H_ReporterID) > 0 \/ ColOf(TicketsWs, H_IDCliente) > 0

\* C10: when the tickets sheet lacks 'ID', or the customers sheet lacks
\* 'ID', 'Socio' or 'Residencia/Urbanización', the merge raises a KeyError
\* and the file is left as it was; the error names the first of the missing
\* columns (when the tickets sheet has no column to compare by either, the
\* check of that comes before the customers' columns and names it instead).
C10_MissingColumnNoWrite ==
    \A i \in 1..Len(m_log) :
        (HasBothSheets /\ Len(MissingMandatory) > 0) =>
            /\ m_log[i].raised
            /\ m_log[i].kind = "KeyError"
            /\ ~m_log[i].changed
            /\ (HasJoinColumn \/ ColOf(TicketsWs, H_ID) = 0) =>
                  m_log[i].name = MissingMandatory[1]

\* C10 as stated: the error names one of the missing mandatory columns
\* whatever else the tickets sheet lacks.
C10_NamesMandatoryColumn ==
    \A i \in 1..Len(m_log) :
        (HasBothSheets /\ Len(MissingMandatory) > 0) =>
            /\ m_log[i].raised
            /\ ~m_log[i].changed
            /\ \E j \in 1..Len(MissingMandatory) : m_log[i].name = MissingMandatory[j]

\* a merge has failed for the missing 'Socio' on a workbook that holds the
\* output sheets of an earlier merge
C10_Witness ==
    /\ Len(m_log) >= 1
    /\ m_log[1].raised
    /\ m_log[1].name = H_Socio
    /\ ~m_log[1].changed
    /\ output_sheet \in sheetnames(m_disk)


(***************************************************************************)
(* Claims: the session, its requests and the workbook file                 *)
(***************************************************************************)
\* C3: at most one job is executing against the page: a job is called only
\* when the job called before it has returned, whatever requests are made
\* meanwhile; the job executing is the one the loop's thread is inside of.
C3_OneJobAtATime ==
    /\ Cardinality(executing) <= 1
    /\ executing = IF InJob THEN {loop_pc.job} ELSE {}

\* the extraction of table 1 is executing while requests for table 2 and for
\* enrich-missing have been accepted and wait
C3_Witness ==
    /\ executing = {"table1"}
    /\ loop_pc.ph = "run"
    /\ _extract_events["table2"]
    /\ _enrich_event
    /\ ~_shutdown_event

\* C4: a request made while the loop is executing a job is not queued: no
\* job is started because of it.
C4_BusyRequestNotQueued == ~job_from_busy

\* C7: the workbook file is not held by two components at once: while one
\* has loaded it and not yet saved it, no other loads it.
C7_ExclusiveFileAccess == Cardinality(holders) <= 1

(***************************************************************************)
(* Claims: the date collection                                             *)
(***************************************************************************)
\* the row list of the sheet in the file
SavedList == collect_ticket_rows(c_disk.rows, 1)

\* a run that resumed after the row of a checkpoint has finished
ResumedRunDone == c_pc = "done" /\ c_start > 0

\* C5: a run that resumes after the checkpointed row R looks up only rows
\* placed after R in the row list, and the updated, skipped and failed
\* counters it ends with are those of a run over all the rows of the list,
\* which count every row of the list once.
C5_ResumeCountsAllRows ==
    ResumedRunDone =>
        /\ \A r \in c_looked : \E i \in (c_start + 1)..Len(SavedList) : SavedList[i] = r
        /\ c_cnt.updated + c_cnt.skipped + c_cnt.failed = Len(SavedList)

\* the rows whose lookup completed before the kill and that are not in the
\* file with the values collected, or were looked up again
LostRows ==
    {e \in c_collected : c_disk.rows[e.r - 1] # e.row \/ e.r \in c_looked}

\* C6: when a run is killed and the run restarted from its checkpoint has
\* finished, at most one row whose lookup completed before the kill is
\* without its collected values in the saved sheet or was looked up again.
C6_CrashLosesAtMostOneRow ==
    (c_pc = "done" /\ c_kills = 1) => Cardinality(LostRows) <= 1

(***************************************************************************)
(* Claims: the table extraction                                            *)
(***************************************************************************)
\* the runs that saved the workbook
SavedRuns == {i \in 1..Len(x_log) : ~x_log[i].raised}

\* C11: two extractions of an unchanged table leave the destination sheet
\* with the same rows, the header and the rows that the run read from the
\* table; rows of an earlier run or of an earlier sheet never stay, and the
\* other sheets of the workbook are kept.
C11_ExtractTwiceSameSheet ==
    \A i \in SavedRuns :
        /\ SheetRows(x_log[i].after, tickets_sheet)
               = extracted_rows(x_table, x_log[i].stale)
        /\ RemoveSheet(x_log[i].after, tickets_sheet)
               = RemoveSheet(x_log[i].before, tickets_sheet)

\* the last row of the destination sheet after run i
LastRowAfter(i) ==
    SheetRows(x_log[i].after, tickets_sheet)[Len(SheetRows(x_log[i].after, tickets_sheet))]

\* C23: when the table is in its empty-result state (the single marker row),
\* a run appends no data row after the header row, whatever the columns the
\* header row resolved to.
C23_EmptyResultNoDataRow ==
    \A i \in SavedRuns :
        x_table.pages = EmptyResultPages
            => LastRowAfter(i) = TextRow(ticket_out_cols)

\* the rows the destination sheet has when run i starts to append
FreshRows(i) ==
    SheetRows(_get_fresh_sheet(_open_or_create_workbook(x_log[i].before),
                               tickets_sheet), tickets_sheet)

\* the rows of every page of the table, once each and in page order
PagesOnce == TextRows(read_pages(col_map(x_table.headers), x_table.pages, 1, {}))

\* C29: a run appends the rows of each page exactly once and in page order,
\* also when a wait for the page change ends by its timeout.
C29_EachPageOnce ==
    \A i \in SavedRuns :
        SheetRows(x_log[i].after, tickets_sheet)
            = FreshRows(i) \o << TextRow(ticket_out_cols) >> \o PagesOnce

\* C29, for the runs whose waits all ended with the table showing the next
\* page
C29_EachPageOnceWhenChanged ==
    \A i \in SavedRuns :
        x_log[i].stale = {}
            => SheetRows(x_log[i].after, tickets_sheet)
                   = FreshRows(i) \o << TextRow(ticket_out_cols) >> \o PagesOnce

(***************************************************************************)
(* Claims: the reorder                                                     *)
(***************************************************************************)
\* the runs that saved the workbook
ReorderedRuns == {i \in 1..Len(r_log) : ~r_log[i].raised}

\* the header row a run wrote, and the header row it read
OutHeaders(i) == _sheet_headers(SheetRows(r_log[i].after, output_sheet))

SrcHeaders(i) == _sheet_headers(SheetRows(r_log[i].before, output_sheet))

\* the headers of row 1 of the template
TemplateHeaders == SelectSeq(_sheet_headers(r_tpl[1].rows), LAMBDA h : Len(h) > 0)

ExcludedKeys == {_norm_key(r_excl[i]) : i \in 1..Len(r_excl)} \ {<<>>}

\* the headers of the template that exclude_columns does not name
KeptTemplateHeaders ==
    SelectSeq(TemplateHeaders, LAMBDA h : _norm_key(h) \notin ExcludedKeys)

\* key k is the key of one of the headers, or the key its alias stands for
CoveredBy(headers, k) ==
    \E i \in 1..Len(headers) :
        /\ Len(_norm_key(headers[i])) > 0
        /\ k \in {_norm_key(headers[i]), alias_get(_norm_key(headers[i]))}

RECURSIVE PickInOrder(_, _, _)
\* the elements of seq at the positions of set P, in the order of seq
PickInOrder(seq, P, i) ==
    IF i > Len(seq) THEN <<>>
    ELSE (IF i \in P THEN <<seq[i]>> ELSE <<>>) \o PickInOrder(seq, P, i + 1)

\* the source columns with a header that the template does not cover and
\* exclude_columns does not name
UncoveredColumns(src) ==
    {j \in 1..Len(src) :
        /\ Len(src[j]) > 0
        /\ ~CoveredBy(TemplateHeaders, _norm_key(src[j]))
        /\ _norm_key(src[j]) \notin ExcludedKeys}

\* of those, the columns whose key is not empty and is not the key of an
\* earlier column
FirstKeyedColumns(src) ==
    {j \in 1..Len(src) :
        /\ Len(_norm_key(src[j])) > 0
        /\ ~CoveredBy(KeptTemplateHeaders, _norm_key(src[j]))
        /\ _norm_key(src[j]) \notin ExcludedKeys
        /\ \A j2 \in 1..(j - 1) : _norm_key(src[j2]) # _norm_key(src[j])}

\* C12 (as stated): the output header row is the headers of the template's
\* row 1, each once and in template order, followed when keep_extra_columns
\* is true by every source column that the template and its aliases do not
\* cover and exclude_columns does not name, once and in source order, and by
\* nothing when it is false.
C12_TemplateThenExtras ==
    \A i \in ReorderedRuns :
        OutHeaders(i) =
            TemplateHeaders
            \o (IF r_keep
                THEN PickInOrder(SrcHeaders(i), UncoveredColumns(SrcHeaders(i)), 1)
                ELSE <<>>)

\* C12 (amended): the output header row is the headers of the template's row 1
\* whose key exclude_columns does not name, in template order, followed when
\* keep_extra_columns is true by the source headers with a non-empty key that
\* those template headers and their aliases do not cover, that
\* exclude_columns does not name and that no earlier source column has, in
\* source order, and by nothing when it is false.
C12_KeptTemplateThenFirstExtras ==
    \A i \in ReorderedRuns :
        OutHeaders(i) =
            KeptTemplateHeaders
            \o (IF r_keep
                THEN PickInOrder(SrcHeaders(i), FirstKeyedColumns(SrcHeaders(i)), 1)
                ELSE <<>>)

\* a run that dropped an excluded header of the template, kept an extra
\* column and left out a source column with the key of an earlier one
C12_Witness ==
    \E i \in ReorderedRuns :
        /\ r_keep
        /\ Len(KeptTemplateHeaders) < Len(TemplateHeaders)
        /\ Len(OutHeaders(i)) > Len(KeptTemplateHeaders)
        /\ FirstKeyedColumns(SrcHeaders(i)) # UncoveredColumns(SrcHeaders(i))

\* the first source column of run i whose normalised header is key k, 0 if
\* there is none
FirstWithKey(i, k) ==
    IF \E c \in 1..Len(SrcHeaders(i)) : _norm_key(SrcHeaders(i)[c]) = k
    THEN SetMin({c \in 1..Len(SrcHeaders(i)) : _norm_key(SrcHeaders(i)[c]) = k})
    ELSE 0

\* the source column of a template header with key k: the column with the
\* equal key when there is one, else the column of the key the alias table
\* gives for k
EqualThenAlias(i, k) ==
    IF FirstWithKey(i, k) # 0 THEN FirstWithKey(i, k)
    ELSE FirstWithKey(i, alias_get(k))

\* the source column of a template header with key k: the column of the key
\* the alias table gives for k when it has an entry for k, else the column
\* with the equal key
AliasThenEqual(i, k) ==
    IF k \in DOMAIN alias THEN FirstWithKey(i, alias[k]) ELSE FirstWithKey(i, k)

\* the cells of column c in the rows below the header, '' in every row for
\* column 0
DataColumn(rows, c, n) ==
    [k \in 1..n |-> IF c = 0 THEN PyStr(<<>>) ELSE Cell(rows, k + 1, c)]

DataRowsBefore(i) == max_row(SheetRows(r_log[i].before, output_sheet)) - 1

OutColumn(i, j) ==
    DataColumn(SheetRows(r_log[i].after, output_sheet), j, DataRowsBefore(i))

SrcColumn(i, c) ==
    DataColumn(SheetRows(r_log[i].before, output_sheet), c, DataRowsBefore(i))

\* C24: each template column of the output holds the cells of the source
\* column whose normalised header equals the template header's when there is
\* one, of the column the alias table names only when there is none, and ''
\* in every row when neither resolves.
C24_EqualHeaderBeforeAlias ==
    \A i \in ReorderedRuns :
        \A j \in 1..Len(KeptTemplateHeaders) :
            OutColumn(i, j)
                = SrcColumn(i, EqualThenAlias(i, _norm_key(KeptTemplateHeaders[j])))

\* C24, with the order the code has: the alias table first
C24_AliasBeforeEqualHeader ==
    \A i \in ReorderedRuns :
        \A j \in 1..Len(KeptTemplateHeaders) :
            OutColumn(i, j)
                = SrcColumn(i, AliasThenEqual(i, _norm_key(KeptTemplateHeaders[j])))


(***************************************************************************)
(* Claims: the header index                                                *)
(***************************************************************************)
\* the columns of the sheet whose header is one of the forms
ColumnsNamed(forms) ==
    {c \in 1..Len(h_ws[1]) : h_ws[1][c].t = "str" /\ h_ws[1][c].s \in forms}

\* the keys that header_to_col has for the columns
KeysOf(columns) == {_norm_header(h_ws[1][c].s) : c \in columns}

\* the name has one key, and the key's column is the first of the name's
FirstWins(index, forms) ==
    ColumnsNamed(forms) # {} =>
        \A k \in KeysOf(ColumnsNamed(forms)) :
            k \in DOMAIN index /\ index[k] = SetMin(ColumnsNamed(forms))

\* the name has one key, and the key's column is the last of the name's
LastWins(index, forms) ==
    ColumnsNamed(forms) # {} =>
        \A k \in KeysOf(ColumnsNamed(forms)) :
            k \in DOMAIN index /\ index[k] = SetMax(ColumnsNamed(forms))

\* C25: headers that differ only by case, accents or whitespace have one
\* key, and merge's index holds for the key the first column with it, so
\* merge reads that column.
C25_MergeIndexFirstWins ==
    h_done =>
        /\ Cardinality(KeysOf(ColumnsNamed(SocioForms))) <= 1
        /\ Cardinality(KeysOf(ColumnsNamed(ClienteForms))) <= 1
        /\ FirstWins(h_cols, SocioForms)
        /\ FirstWins(h_cols, ClienteForms)

\* C25, as merge's index is built: the last column with the key
C25_MergeIndexLastWins ==
    h_done =>
        /\ Cardinality(KeysOf(ColumnsNamed(SocioForms))) <= 1
        /\ Cardinality(KeysOf(ColumnsNamed(ClienteForms))) <= 1
        /\ LastWins(h_cols, SocioForms)
        /\ LastWins(h_cols, ClienteForms)

\* C25, for the reorder's index: the first column with the key
C25_ReorderIndexFirstWins ==
    h_done =>
        /\ \A c \in ColumnsNamed(SocioForms) :
               h_index[_norm_key(h_ws[1][c].s)] = SetMin(ColumnsNamed(SocioForms))
        /\ \A c \in ColumnsNamed(ClienteForms) :
               h_index[_norm_key(h_ws[1][c].s)] = SetMin(ColumnsNamed(ClienteForms))

(***************************************************************************)
(* Claims: the navigation step                                             *)
(***************************************************************************)
\* the first candidate of 1..s_n in ok, or s_n when there is none
LastTried(ok) == IF ok = {} THEN s_n ELSE SetMin(ok)

\* candidates 1, 2, ... in listed order up to the first that succeeds
PassIn(doc, ok) == [j \in 1..LastTried(ok) |-> <<doc, j>>]

\* C26: in a frame the candidates are tried in order and the first that
\* succeeds ends the step; only if all fail are they tried once more, in the
\* same order, in the root document, and the step raises only when that pass
\* fails too; with the root document as scope there is one pass.
C26_FramePassThenRootPass ==
    s_result # "none" =>
        /\ s_scope = "frame" /\ s_okf # {} =>
               s_tried = PassIn("frame", s_okf) /\ s_result = "returned"
        /\ s_scope = "frame" /\ s_okf = {} =>
               /\ s_tried = PassIn("frame", {}) \o PassIn("page", s_okr)
               /\ s_result = "raised" <=> (s_okr = {} /\ s_n > 0)
        /\ s_scope = "page" =>
               /\ s_tried = PassIn("page", s_okr)
               /\ s_result = "raised" <=> (s_okr = {} /\ s_n > 0)

\* a step in a frame whose candidates all failed there and whose second
\* candidate succeeded in the root document
C26_Witness ==
    /\ s_result = "returned"
    /\ s_scope = "frame"
    /\ s_n = MaxCands
    /\ s_okf = {}
    /\ s_tried = <<<<"frame", 1>>, <<"frame", 2>>, <<"frame", 3>>,
                   <<"page", 1>>, <<"page", 2>>>>

(***************************************************************************)
(* Claims: the calls of request_collect_dates_from_excel and the loop      *)
(***************************************************************************)
\* the collection runs the loop has started
ExcelRuns == SelectSeq(l_runs, LAMBDA r : r.job = "collect_excel")

\* the ticket navigations the loop has started with an empty ID
EmptyNavs == SelectSeq(l_runs, LAMBDA r : r.job = "collect_nav" /\ r.arg = NoTicket)

\* no call is between its tests and its last write, no signal is pending,
\* and the loop is outside the collect branch
RaceQuiet ==
    /\ q_pc = "idle"
    /\ ~_collect_dates_event
    /\ l_pc \in {"test", "wait"}

\* C27: every accepted call of request_collect_dates_from_excel leads to
\* exactly one collection run for its path, whatever the interleaving with
\* the loop: none is lost, none becomes a ticket navigation with an empty ID.
C27_AcceptedCallRunsOnce ==
    /\ Len(EmptyNavs) = 0
    /\ RaceQuiet => Len(ExcelRuns) = q_accepted

\* C27, its second half alone: no ticket navigation with an empty ID
C27_NoEmptyNavigation == Len(EmptyNavs) = 0

\* C27, its first half alone: once all is quiet, a run per accepted call
C27_RunPerAcceptedCall == RaceQuiet => Len(ExcelRuns) = q_accepted

\* C27, for one call: it is run once
C27_OneCallRunsOnce ==
    q_calls <= 1 => /\ Len(EmptyNavs) = 0
                    /\ RaceQuiet => Len(ExcelRuns) = q_accepted

(***************************************************************************)
(* Claims: the checkpoint and a sheet created again                        *)
(***************************************************************************)
\* a run has read the checkpoint and starts after its row
Resuming == c_pc = "row" /\ c_start > 0 /\ c_i = c_start

\* the rows of the list that the run starting at c_start passes over have
\* each been looked up since the sheet was created, or hold their three dates
PassedRowsHandled ==
    \A j \in 1..c_start :
        \/ CollectList[j] \in v_handled
        \/ row_complete(c_wb.rows[CollectList[j] - 1])

\* C28: when a run resumes after the checkpoint's row, every row at or
\* before it in the current sheet has been handled against the sheet's
\* current contents, also when the sheet was created again in between.
C28_ResumeSkipsOnlyHandledRows == Resuming => PassedRowsHandled

\* C28, while no merge has created the sheet again
C28_ResumeOnSameSheet == (Resuming /\ v_merges = 0) => PassedRowsHandled

\* ---- requests made before the page is ready
\* a step that is a call of request_extract, request_enrich_missing or
\* request_collect_dates_from_excel
FileRequestStep ==
    \/ OnExtract1
    \/ OnExtract2
    \/ EnrichThreadJob
    \/ RequestCollectDatesFromExcel

\* C13: a request_extract, request_enrich_missing or
\* request_collect_dates_from_excel call made while the page-ready flag is
\* not set emits the not-ready message and changes no signal flag, no mode
\* and no stored path; the loop's thread is where it was and no job runs
\* while the flag is not set.
C13_UnreadyRequestChangesNothing ==
    /\ [](~_page_ready => (~InJob /\ executing = {}))
    /\ [][(~_page_ready /\ FileRequestStep)
             => (reply' = "not_ready"
                 /\ UNCHANGED <<sessionFieldVars, loop_pc, executing>>)]_vars

\* a request was refused for the page not being ready, before any shutdown
C13_Witness ==
    /\ _session
    /\ ~_page_ready
    /\ ~_shutdown_event
    /\ reply = "not_ready"
    /\ loop_pc.at = "launch"


\* ---- shutdown
\* the loop's thread enters a job
JobStarts == loop_pc.job = "none" /\ loop_pc'.job # "none"

\* C14: once shutdown() has been called the event loop starts no further
\* job: no extract, enrich-missing or collect-dates job is entered after the
\* call.
C14_NoJobAfterShutdown ==
    [][_shutdown_event => ~JobStarts]_vars


\* ---- errors of the jobs
\* C15: every error raised while an extract, enrich-missing or collect-dates
\* job runs is turned into a message at the job boundary: the event loop
\* does not end from inside a job, and the job's running flag is cleared
\* when the loop's thread has left the job.
C15_JobErrorKeepsLoop ==
    /\ [][InJob => loop_pc'.at # "closed"]_vars
    /\ [](~InJob => (~_enrich_running /\ ~_collect_dates_running))


\* ---- the checkpoint of the date collection
\* the checkpoint names the sheet row row_idx and holds the totals cnt
CheckpointIs(row_idx, cnt) ==
    /\ c_ckpt.exists
    /\ ~c_ckpt.done
    /\ c_ckpt.last_row_idx = row_idx
    /\ c_ckpt.updated = cnt.updated
    /\ c_ckpt.skipped = cnt.skipped
    /\ c_ckpt.failed = cnt.failed

\* the loop is between two rows, the row before was handled by this run
BetweenRows == c_pc = "row" /\ c_i > c_start

\* the step by which a row is skipped
SkipStep == c_pc = "row" /\ c_pc' = "row" /\ c_i' = c_i + 1

FailStep == c_pc = "lookup" /\ c_pc' = "ckpt" /\ c_cnt'.updated = c_cnt.updated

\* the row is counted as failed, and nothing else of the run changes
CountedFailedOnce ==
    /\ c_cnt' = [c_cnt EXCEPT !.failed = @ + 1]
    /\ UNCHANGED <<c_wb, c_i, c_disk>>

CellText(cell) == Lower(Strip(StrOrEmpty(cell)))

\* the cell is blank or holds 'N/A'
BlankOrNA(cell) == CellText(cell) \in {<<>>, <<"n", "/", "a">>}

\* the cell is blank or holds 'N/A' or 'NA'
BlankOrNAOrNA2(cell) == CellText(cell) \in {<<>>, <<"n", "/", "a">>, <<"n", "a">>}

\* the row the loop is at, as the run holds it
CurrentRow == c_wb.rows[CollectRowIdx - 1]

AtRow == c_pc = "row" /\ c_i < Len(CollectList)

\* the loop leaves the head of a row: to its lookup, or past it
ToLookup == AtRow /\ c_pc' = "lookup"

Skips == AtRow /\ c_pc' = "row"

\* the cells of the run's workbook that a step changes are cells of the
\* current row for which Missing holds
OnlyMissingCellsChange(Missing(_)) ==
    c_wb.exists /\ c_wb'.exists /\ c_wb' # c_wb =>
        /\ c_pc = "lookup"
        /\ \A r \in 1..Len(c_wb.rows) :
              /\ r # CollectRowIdx - 1 => c_wb'.rows[r] = c_wb.rows[r]
              /\ c_wb'.rows[r].id = c_wb.rows[r].id
              /\ c_wb'.rows[r].esc # c_wb.rows[r].esc => Missing(c_wb.rows[r].esc)
              /\ c_wb'.rows[r].res # c_wb.rows[r].res => Missing(c_wb.rows[r].res)
              /\ c_wb'.rows[r].cie # c_wb.rows[r].cie => Missing(c_wb.rows[r].cie)

\* a row is looked up exactly when Missing holds of one of its date cells; a
\* row that is skipped is not looked up and no cell changes
LookedUpIffMissing(Missing(_)) ==
    /\ ToLookup => \E f \in {"esc", "res", "cie"} : Missing(CurrentRow[f])
    /\ Skips => /\ \A f \in {"esc", "res", "cie"} : ~Missing(CurrentRow[f])
                /\ UNCHANGED <<c_wb, c_disk, c_looked>>
    /\ CollectRunning /\ c_looked' # c_looked =>
            c_pc = "lookup" /\ c_looked' = c_looked \cup {CollectRowIdx}

FileKeepsValues(Missing(_)) ==
    (c_disk.exists /\ c_disk' # c_disk) =>
        /\ c_disk'.exists
        /\ Len(c_disk'.rows) = Len(c_disk.rows)
        /\ \A r \in 1..Len(c_disk.rows) :
              /\ c_disk'.rows[r].id = c_disk.rows[r].id
              /\ \A f \in {"esc", "res", "cie"} :
                    ~Missing(c_disk.rows[r][f])
                        => c_disk'.rows[r][f] = c_disk.rows[r][f]

WritesDone == c_ckpt' # c_ckpt /\ c_ckpt'.done

\* the file holds the workbook of the run, every cell update included
FileIsCurrent == c_disk = c_wb

\* C19: a run that has handled its last row saves the spreadsheet after the
\* last cell update; the checkpoint receives its done flag only after that
\* final save has succeeded; a run stopped by a failed save writes no done
\* checkpoint.
C19_DoneOnlyAfterFinalSave ==
    /\ [][(c_pc = "row" /\ c_i >= Len(CollectList)) => c_pc' \in {"final", "killed"}]_vars
    /\ [][c_pc' = "final" => (c_pc = "row" /\ c_i >= Len(CollectList))]_vars
    /\ [][(c_pc = "final" \/ c_pc = "mark") => (c_wb' = c_wb \/ ~c_wb'.exists)]_vars
    /\ [][c_pc' = "mark" => (c_pc = "final" /\ c_disk' = c_wb)]_vars
    /\ [](c_pc = "mark" => FileIsCurrent)
    /\ [][WritesDone => (c_pc = "mark" /\ FileIsCurrent /\ c_disk' = c_disk)]_vars
    /\ [][(c_pc \in {"save", "final"} /\ c_pc' = "ended") => UNCHANGED <<c_ckpt, c_disk>>]_vars
    /\ [][c_pc = "ended" => UNCHANGED c_ckpt]_vars

\* a run that wrote a cell has ended with its done checkpoint, the file
\* holding the cell
C19_Witness ==
    /\ c_pc = "done"
    /\ c_ckpt.done
    /\ c_cnt.updated = 1
    /\ c_cnt.skipped = 1
    /\ c_disk # c_bak
    /\ c_runs = 1


\* ---- the backup copy
\* the run has not written the spreadsheet file yet: the file is written
\* after a row looked up, or at the end
BeforeFirstWrite ==
    /\ c_pc \in {"row", "lookup", "recover", "final"}
    /\ c_cnt.updated + c_cnt.failed = 0

WaitUnblocked ==
    /\ SessNext
    /\ loop_pc'.ph # "wait_apply"
    /\ ~ApplyClicked
    /\ ~ApplyTimeout

\* C21: if shutdown() is called while a manual table-1 extraction waits for
\* the click on 'Aplicar', the wait is unblocked by the shutdown signal: it
\* can end without the click and without its timeout.
C21_ShutdownUnblocksWait ==
    (WaitingForApply /\ _shutdown_event) => ENABLED WaitUnblocked


\* ---- two requests for one table
\* the loop's thread enters the extraction of table k
DispatchOf(k) == loop_pc.job = "none" /\ loop_pc'.job = k

\* a call for table k is accepted while an earlier one is still pending
SecondCall(k) == Len(g_calls[k]) >= 1 /\ Len(g_calls'[k]) = Len(g_calls[k]) + 1

LastCall(calls) == calls[Len(calls)]

\* C22: when two request_extract calls for one table are accepted before the
\* loop consumes the table's signal, the second only replaces the pending
\* mode, with no message; one extraction of the table is started for the two
\* calls, with the mode of the later call, and the signal is clear after it.
C22_LaterModeOneExtraction ==
    /\ [](\A k \in TableKeys : g_calls[k] # <<>> => _extract_events[k])
    /\ [](\A k \in TableKeys :
            g_calls[k] # <<>> => _extract_modes[k] = norm_mode(LastCall(g_calls[k])))
    /\ [][\A k \in TableKeys :
            SecondCall(k) => (/\ reply' = "accepted"
                              /\ _extract_events' = _extract_events
                              /\ UNCHANGED <<loop_pc, executing>>)]_vars
    /\ [][\A k \in TableKeys :
            DispatchOf(k) => (/\ _extract_events[k]
                              /\ ~_extract_events'[k]
                              /\ loop_pc'.arg = _extract_modes[k]
                              /\ g_served'.calls = g_calls[k])]_vars

\* the extraction of table1 runs for a call with no mode followed by one
\* with mode 'MANUAL': it is in manual mode, and no signal of the table is left
C22_Witness ==
    /\ loop_pc.job = "table1"
    /\ g_served = [k |-> "table1", calls |-> <<NoMode, "MANUAL">>]
    /\ loop_pc.arg = "manual"
    /\ ~_extract_events["table1"]
    /\ g_calls["table1"] = <<>>
    /\ ~_shutdown_event

=============================================================================
